---- MODULE Spec2Model ----
(***************************************************************************)
(* rusty-kodi: the MPD protocol engine (mpd-server-protocol), the Kodi     *)
(* proxy handler (kodi-mpd-proxy) and the change ledger of the poller.     *)
(*                                                                         *)
(* Part I models the session task (Server::poll, MPDCommand::parse,        *)
(* MPDCommand::process, MPDSubCommand::process), the handler's idle() and  *)
(* events(), and KodiPlayer::event_new with its three separate steps       *)
(* (counter fetch_add, version fetch_add, watch send), which tasks on a    *)
(* multi-threaded runtime interleave.                                      *)
(***************************************************************************)
EXTENDS Integers, Sequences, FiniteSets, TLC

\* ------------------------------------------------------------------ bounds
\* event_new is called at most MaxVersion times in a run with one session,
\* at most MaxRace times in a run with several
MaxVersion == 2
MaxRace == 3
\* a command list holds at most MaxList sub-commands
MaxList == 2

\* ------------------------------------------------------------------ domain
Sessions == {"A", "B", "C"}
Poller == "poller"
Writers == Sessions \cup {Poller}

\* MPDSubsystem, in enum order: Player, which the poller and seek / seek_current
\* raise, and Mixer, which stands for those only the poller raises
SubsystemOrder == <<"mixer", "player">>
Subsystems == {SubsystemOrder[i] : i \in 1..Len(SubsystemOrder)}

\* MPDSubCommand values: v is the variant, w the wanted set of Idle
Cmd(v) == [v |-> v, w |-> {}]
Idle(w) == [v |-> "idle", w |-> w]
NoIdle == Cmd("noidle")
\* Invalid { name: "", reason: Unknown("unknown command ...") }
Invalid == Cmd("invalid")

\* MPDCommand values as returned by parse_command_line; t = "none" is Ok(None)
Sub(c) == [t |-> "sub", ok |-> FALSE, c |-> c]
ListBegin(ok) == [t |-> "begin", ok |-> ok, c |-> Cmd("")]
ListEnd == [t |-> "end", ok |-> FALSE, c |-> Cmd("")]
NoLine == [t |-> "none", ok |-> FALSE, c |-> Cmd("")]

\* reply lines
Line(k, code, i, arg) == [k |-> k, code |-> code, idx |-> i, arg |-> arg]
Greeting == Line("OK MPD 0.22.0", 0, 0, "")
OkLine == Line("OK", 0, 0, "")
ListOkLine == Line("list_OK", 0, 0, "")
Changed(S) == Line("changed", 0, 0, S)
Data(what) == Line("data", 0, 0, what)

\* CommandError::send: "ACK [code@idx] {name} msg"
Ack(code, i, name) == Line("ACK", code, i, name)

\* Result<(), CommandError> of MPDSubCommand::process
Ok == [ok |-> TRUE, code |-> 0, name |-> ""]
\* CommandError::Unknown -> 5, CommandError::NoExist -> 50
Err(code, name) == [ok |-> FALSE, code |-> code, name |-> name]

VARIABLES
    subsystem_events,   \* KodiPlayer.subsystem_events: per-subsystem atomic counters
    subsystem_version,  \* KodiPlayer.subsystem_version: atomic
    chan,               \* the watch channel: the value held and the number of sends
    evpc,               \* per writer: position inside event_new
    evver,              \* per writer: event_new's local `version`
    pc,                 \* per session: position of the session task
    closed,             \* per session: the client has closed the connection
    kind,               \* per session: the command being served (sub, list, list_ok)
    cmds,               \* per session: its sub-commands
    idx,                \* per session: index of the sub-command being executed
    reply,              \* per session: lines written for the command being served
    calls,              \* per session: handler operations called for that command
    sess_events,        \* KodiProxyCommandHandler.subsystem_events
    sess_version,       \* KodiProxyCommandHandler.subsystem_version
    rx_seen,            \* the session's watch::Receiver: number of sends it has seen
    input,              \* one command line: its name and the bytes of its arguments
    token,              \* what the tokenizers make of the argument bytes
    parsed,             \* parse_command's result for the line
    served,             \* what processing that command wrote and called
    stage,              \* how far the line has got
    status,             \* the MPDStatus a handler returned
    block,              \* the lines MPDStatus::fmt wrote for it
    sources,            \* the sources AudioLibrary.GetSources answers with
    lsurl,              \* the Url of the lsinfo being served
    lsreply,            \* what the session wrote for it
    tags,               \* KodiProxyCommandHandler.tags, per session
    tagtypes,           \* the last tagtypes command served, and what was written
    duration,           \* the Duration handed to the conversion
    time,               \* the Time made from it
    back,               \* the Duration made from that Time
    kodi,               \* the KodiPlayer the poll task and the handlers share
    refresh,            \* the poll task: where it is in refresh() and its locals
    tick,               \* what the current poll tick found when it started and fetched
    mapped,             \* a path handed to the PathMapper, and what it returned
    compiled,           \* a find command, the filter compiled from it and the reply
    seeker,             \* a handler serving seek / seekid, and the requests it sent
    queue,              \* the backend's queue and a delete being served on it
    wire                \* a session in idle, the bytes of its stream and what it parsed

ledger == <<subsystem_events, subsystem_version, chan, evpc, evver>>
handler == <<sess_events, sess_version, rx_seen>>
command == <<kind, cmds, idx, reply, calls>>
parser == <<input, token, parsed, served, stage>>
tasks == <<ledger, handler, command, pc, closed>>
\* the state of the parts that are examined on their own
clock == <<duration, time, back>>
poller == <<kodi, refresh, tick>>
later == <<mapped, compiled, seeker, queue, wire>>
\* the state of the parts that are examined on their own
settled == <<status, block, sources, lsurl, lsreply, tags, tagtypes, clock, poller>>
apart == <<settled, later>>
vars == <<subsystem_events, subsystem_version, chan, evpc, evver, pc, closed,
          kind, cmds, idx, reply, calls, sess_events, sess_version, rx_seen,
          input, token, parsed, served, stage, status, block,
          sources, lsurl, lsreply, tags, tagtypes, duration, time, back,
          kodi, refresh, tick, mapped, compiled, seeker, queue, wire>>

Total == subsystem_events["mixer"] + subsystem_events["player"]

\* TagType, three of its variants in the order of the enum
TagOrder == <<"Artist", "Title", "Date">>
TagTypes == {TagOrder[i] : i \in 1..Len(TagOrder)}

\* Option<T>: None is the empty set, Some(v) the set of v
None == {}
Some(v) == {v}

\* the subsystems the poll task raises
Polled == {"mixer", "player", "playlist"}

\* KodiPlayer::new
KodiPlayer_new ==
    [id |-> 0,
     app_properties |-> [volume |-> None, muted |-> None],
     player_properties |-> [position |-> None, speed |-> None, playlistid |-> None],
     playlist_items |-> <<>>,
     subsystem_events |-> [S \in Polled |-> 0],
     subsystem_version |-> 0,
     subsystem_notifier |-> [value |-> 0, sends |-> 0]]

Init ==
    /\ subsystem_events = [S \in Subsystems |-> 0]
    /\ subsystem_version = 0
    /\ chan = [value |-> 0, tick |-> 0]
    /\ evpc = [w \in Writers |-> "none"]
    /\ evver = [w \in Writers |-> 0]
    /\ pc = [s \in Sessions |-> "new"]
    /\ closed = [s \in Sessions |-> FALSE]
    /\ kind = [s \in Sessions |-> "none"]
    /\ cmds = [s \in Sessions |-> <<>>]
    /\ idx = [s \in Sessions |-> 0]
    /\ reply = [s \in Sessions |-> <<>>]
    /\ calls = [s \in Sessions |-> <<>>]
    /\ sess_events = [s \in Sessions |-> [S \in Subsystems |-> 0]]
    /\ sess_version = [s \in Sessions |-> 0]
    /\ rx_seen = [s \in Sessions |-> 0]
    /\ input = <<>>
    /\ token = <<>>
    /\ parsed = <<>>
    /\ served = <<>>
    /\ stage = "wait"
    /\ status = <<>>
    /\ block = <<>>
    /\ sources = <<>>
    /\ lsurl = <<>>
    /\ lsreply = <<>>
    /\ tags = [s \in Sessions |-> TagTypes]
    /\ tagtypes = <<>>
    /\ duration = <<>>
    /\ time = <<>>
    /\ back = <<>>
    /\ kodi = KodiPlayer_new
    /\ refresh = [at |-> "sleep", ids |-> <<>>, current |-> 0, ticks |-> 0]
    /\ tick = <<>>
    /\ mapped = <<>>
    /\ compiled = <<>>
    /\ seeker = <<>>
    /\ queue = <<>>
    /\ wire = <<>>

\* ------------------------------------------------------------- the session
Current(s) == cmds[s][idx[s] + 1]

\* a process that writes list_OK in every list, whatever its `ok` flag
Terminator_ListOkAlways(s, res) ==
    IF ~res.ok THEN <<Ack(res.code, idx[s], res.name)>>
    ELSE IF kind[s] = "sub"
         THEN (IF Current(s) = NoIdle THEN <<>> ELSE <<OkLine>>)
         ELSE <<ListOkLine>>
              \o (IF idx[s] + 1 = Len(cmds[s]) THEN <<OkLine>> ELSE <<>>)

\* MPDCommand::process after the sub-command at idx returned `res`, having
\* written `extra`: list_OK / OK / ACK, and whether the list goes on
Terminator(s, res) ==
    IF ~res.ok THEN <<Ack(res.code, idx[s], res.name)>>
    ELSE IF kind[s] = "sub"
         THEN (IF Current(s) = NoIdle THEN <<>> ELSE <<OkLine>>)
         ELSE (IF kind[s] = "list_ok" THEN <<ListOkLine>> ELSE <<>>)
              \o (IF idx[s] + 1 = Len(cmds[s]) THEN <<OkLine>> ELSE <<>>)

Finish(s, res, extra) ==
    LET more == res.ok /\ kind[s] # "sub" /\ idx[s] + 1 < Len(cmds[s]) IN
    /\ reply' = [reply EXCEPT ![s] = @ \o extra \o Terminator(s, res)]
    /\ pc' = [pc EXCEPT ![s] = IF more THEN "exec" ELSE "read"]
    /\ idx' = [idx EXCEPT ![s] = IF more THEN @ + 1 ELSE @]

\* main: accept, rx.clone(), Server::new writes the greeting
Connect(s) ==
    /\ pc[s] = "new"
    /\ UNCHANGED <<parser, apart>>
    /\ pc' = [pc EXCEPT ![s] = "read"]
    /\ reply' = [reply EXCEPT ![s] = <<Greeting>>]
    /\ UNCHANGED <<ledger, handler, closed, kind, cmds, idx, calls>>

\* the client closes its end: every later read returns 0 bytes
ClientClose(s) ==
    /\ pc[s] \notin {"new", "exited", "failed", "panicked"}
    /\ UNCHANGED <<parser, apart>>
    /\ ~closed[s]
    /\ closed' = [closed EXCEPT ![s] = TRUE]
    /\ UNCHANGED <<ledger, handler, command, pc>>

\* Server::poll reads the first line of a command
PollRead(s, line) ==
    /\ pc[s] = "read"
    /\ UNCHANGED <<parser, apart>>
    /\ ~closed[s]
    /\ pc' = [pc EXCEPT ![s] =
                CASE line.t = "none" -> "exited"
                  [] line.t = "end" -> "panicked"
                  [] line.t = "begin" -> "list"
                  [] OTHER -> "exec"]
    /\ kind' = [kind EXCEPT ![s] =
                CASE line.t = "begin" -> (IF line.ok THEN "list_ok" ELSE "list")
                  [] line.t = "sub" -> "sub"
                  [] OTHER -> line.t]
    /\ cmds' = [cmds EXCEPT ![s] = IF line.t = "sub" THEN <<line.c>> ELSE <<>>]
    /\ idx' = [idx EXCEPT ![s] = 0]
    /\ reply' = [reply EXCEPT ![s] = <<>>]
    /\ calls' = [calls EXCEPT ![s] = <<>>]
    /\ UNCHANGED <<ledger, handler, closed>>

\* Server::poll at end of input: parse_command_line returns Ok(None)
PollEOF(s) ==
    /\ pc[s] = "read"
    /\ UNCHANGED <<parser, apart>>
    /\ closed[s]
    /\ pc' = [pc EXCEPT ![s] = "exited"]
    /\ UNCHANGED <<ledger, handler, command, closed>>

\* MPDCommand::parse: one turn of the loop that collects a command list
ListRead(s, line) ==
    /\ pc[s] = "list"
    /\ UNCHANGED <<parser, apart>>
    /\ ~closed[s]
    /\ line.t \in {"sub", "begin"} => Len(cmds[s]) < MaxList
    /\ cmds' = [cmds EXCEPT ![s] =
                CASE line.t = "sub" -> Append(@, line.c)
                  [] line.t = "begin" -> Append(@, Invalid)
                  [] OTHER -> @]
    /\ IF line.t = "end" /\ cmds[s] = <<>>
       THEN /\ reply' = [reply EXCEPT ![s] = <<OkLine>>]
            /\ pc' = [pc EXCEPT ![s] = "read"]
       ELSE /\ reply' = reply
            /\ pc' = [pc EXCEPT ![s] = IF line.t = "end" THEN "exec" ELSE "list"]
    /\ UNCHANGED <<ledger, handler, closed, kind, idx, calls>>

\* the same loop at end of input: Ok(None) is skipped and the loop reads again
ListEOF(s) ==
    /\ pc[s] = "list"
    /\ closed[s]
    /\ UNCHANGED vars


\* the handler operation MPDSubCommand::process calls for a variant ("" = none)
HandlerOp(v) ==
    CASE v = "clear" -> "queue_clear"
      [] v = "delete" -> "queue_delete"
      [] v = "swap" -> "queue_swap"
      [] v = "random" -> "random"
      [] v \in {"update", "rescan"} -> "library_update"
      [] v = "seek" -> "seek"
      [] v = "seekcur" -> "seek_current"
      [] v = "lsinfo" -> "list_directory"
      [] v = "idle" -> "idle"
      [] OTHER -> ""

\* what the handler operation can answer: "ok", "fail" (the backend request or
\* the path mapping failed), "skip" (seek: no playlist or unknown song id,
\* Ok(()) without a request)
Outcomes(c) ==
    CASE c.v = "seek" -> {"ok", "fail", "skip"}
      [] c.v \in {"clear", "delete", "swap", "random", "update", "rescan",
                  "seekcur", "lsinfo", "find", "search"} -> {"ok", "fail"}
      [] OTHER -> {"none"}

\* arms of MPDSubCommand::process that apply `?` to the handler's Result
Propagates(v) ==
    v \in {"clear", "delete", "swap", "random", "update", "rescan", "seek", "seekcur"}

\* arms whose handler operation ends in event_new(MPDSubsystem::Player)
RaisesPlayer(c, o) == c.v \in {"seek", "seekcur"} /\ o = "ok"

\* the inner Result of MPDSubCommand::process for the arms that do not block
Result(c, o) ==
    CASE c.v = "invalid" -> Err(5, "")
      [] c.v = "listplaylist" -> Err(50, "listplaylist")
      [] c.v = "lsinfo" /\ o = "fail" -> Err(50, "lsinfo")
      [] OTHER -> Ok

\* what the arm writes before it returns
Payload(c, o) ==
    IF c.v = "lsinfo" /\ o = "ok" THEN <<Data("directory")>> ELSE <<>>

\* MPDSubCommand::process on the sub-command at idx, up to its first suspension
ExecSub(s, cap) ==
    /\ pc[s] = "exec"
    /\ UNCHANGED <<parser, apart>>
    /\ LET c == Current(s) IN
       \E o \in Outcomes(c) :
          /\ calls' = [calls EXCEPT ![s] =
                        IF HandlerOp(c.v) = "" THEN @ ELSE Append(@, HandlerOp(c.v))]
          /\ IF c.v = "idle"
             THEN /\ pc' = [pc EXCEPT ![s] = "idle"]
                  /\ UNCHANGED <<ledger, reply, idx>>
             ELSE IF Propagates(c.v) /\ o = "fail"
             THEN /\ pc' = [pc EXCEPT ![s] = "failed"]
                  /\ UNCHANGED <<ledger, reply, idx>>
             ELSE IF RaisesPlayer(c, o)
             THEN /\ Total < cap
                  /\ subsystem_events' =
                        [subsystem_events EXCEPT !["player"] = @ + 1]
                  /\ evpc' = [evpc EXCEPT ![s] = "counted"]
                  /\ pc' = [pc EXCEPT ![s] = "event"]
                  /\ UNCHANGED <<subsystem_version, chan, evver, reply, idx>>
             ELSE /\ Finish(s, Result(c, o), Payload(c, o))
                  /\ UNCHANGED ledger
    /\ UNCHANGED <<handler, closed, kind, cmds>>

\* ------------------------------------------------------------ idle
\* an events() that forgets the wanted set
Events_AnyChanged(s, wanted) ==
    {S \in Subsystems : subsystem_events[S] > sess_events[s][S]}

\* KodiProxyCommandHandler::events: the wanted subsystems whose counter is
\* ahead of the session's own
Events(s, wanted) ==
    {S \in wanted : subsystem_events[S] > sess_events[s][S]}

\* KodiProxyCommandHandler::idle once changed() has resolved
IdleSet(s, wanted) ==
    IF chan.value > sess_version[s] THEN Events(s, wanted) ELSE {}

ChangedLines(set) ==
    LET RECURSIVE from(_)
        from(i) == IF i > Len(SubsystemOrder) THEN <<>>
                   ELSE (IF SubsystemOrder[i] \in set
                         THEN <<Changed(SubsystemOrder[i])>> ELSE <<>>) \o from(i + 1)
    IN from(1)

\* the select! arm `set = handler.idle(*subsystems)`
IdleWake(s) ==
    /\ pc[s] = "idle"
    /\ UNCHANGED <<parser, apart>>
    /\ rx_seen[s] # chan.tick
    /\ rx_seen' = [rx_seen EXCEPT ![s] = chan.tick]
    /\ LET set == IdleSet(s, Current(s).w) IN
       /\ sess_version' = [sess_version EXCEPT ![s] =
                            IF chan.value > @ THEN chan.value ELSE @]
       /\ sess_events' = [sess_events EXCEPT ![s] =
                            [S \in Subsystems |->
                               IF S \in set THEN subsystem_events[S] ELSE @[S]]]
       /\ IF set = {}
          THEN UNCHANGED <<pc, reply, idx>>
          ELSE Finish(s, Ok, ChangedLines(set))
    /\ UNCHANGED <<ledger, closed, kind, cmds, calls>>

\* a session that takes noidle for any other line
IdleLineResult_NoIdleUnknown(line) ==
    IF line.t = "none" THEN Ok ELSE Err(5, "idle")

\* the select! arm `cmd = parse_command_line(stream, buf)`: Ok(None) and NoIdle
\* end the idle with Ok(()), any other command with Unknown("invalid command")
IdleLineResult(line) ==
    IF line.t = "none" \/ line = Sub(NoIdle) THEN Ok ELSE Err(5, "idle")

IdleLine(s, line) ==
    /\ pc[s] = "idle"
    /\ UNCHANGED <<parser, apart>>
    /\ ~closed[s]
    /\ Finish(s, IdleLineResult(line), <<>>)
    /\ UNCHANGED <<ledger, handler, closed, kind, cmds, calls>>

\* the same arm at end of input: parse_command_line returns Ok(None)
IdleEOF(s) ==
    /\ pc[s] = "idle"
    /\ UNCHANGED <<parser, apart>>
    /\ closed[s]
    /\ Finish(s, IdleLineResult(NoLine), <<>>)
    /\ UNCHANGED <<ledger, handler, closed, kind, cmds, calls>>

\* ------------------------------------------------------------ the ledger
\* KodiPlayer::refresh / refresh_playlist found a difference and calls
\* event_new(S); this is its first statement, the counter's fetch_add
PollerDetect(S, cap) ==
    /\ evpc[Poller] = "none"
    /\ UNCHANGED <<parser, apart>>
    /\ Total < cap
    /\ subsystem_events' = [subsystem_events EXCEPT ![S] = @ + 1]
    /\ evpc' = [evpc EXCEPT ![Poller] = "counted"]
    /\ UNCHANGED <<subsystem_version, chan, evver, pc, closed, command, handler>>

\* event_new: let version = self.subsystem_version.fetch_add(1, Relaxed)
EventFetch(w) ==
    /\ evpc[w] = "counted"
    /\ UNCHANGED <<parser, apart>>
    /\ evver' = [evver EXCEPT ![w] = subsystem_version]
    /\ subsystem_version' = subsystem_version + 1
    /\ evpc' = [evpc EXCEPT ![w] = "fetched"]
    /\ UNCHANGED <<subsystem_events, chan, pc, closed, command, handler>>

\* the value event_new publishes
Published(w) == evver[w] + 1

\* event_new: self.subsystem_notifier.send(version + 1); a session then returns
\* Ok(()) from seek / seek_current
EventSend(w) ==
    /\ evpc[w] = "fetched"
    /\ UNCHANGED <<parser, apart>>
    /\ chan' = [value |-> Published(w), tick |-> chan.tick + 1]
    /\ evpc' = [evpc EXCEPT ![w] = "none"]
    /\ evver' = [evver EXCEPT ![w] = 0]
    /\ IF w \in Sessions
       THEN Finish(w, Ok, <<>>)
       ELSE UNCHANGED <<pc, reply, idx>>
    /\ UNCHANGED <<subsystem_events, subsystem_version, closed, kind, cmds, calls,
                   handler>>

\* ------------------------------------------------------------ one session
\* the lines a client sends: as a command, inside a command list, during idle
Wanted == {{"player"}, {"mixer"}, Subsystems}
Lexicon ==
    {Sub(Cmd(v)) : v \in {"ping", "clear", "delete", "swap", "random", "update",
                          "rescan", "seek", "seekcur", "lsinfo", "listplaylist"}}
    \cup {Sub(Idle(w)) : w \in Wanted}
    \cup {Sub(NoIdle), Sub(Invalid), ListBegin(TRUE), ListBegin(FALSE), ListEnd, NoLine}
ListLexicon ==
    {Sub(Cmd(v)) : v \in {"ping", "clear", "seekcur"}} \cup {Sub(NoIdle)}
    \cup {Sub(Idle({"player"})), Sub(Invalid), ListBegin(TRUE), ListEnd, NoLine}
IdleLexicon == {Sub(NoIdle), Sub(Cmd("ping")), NoLine}

Session(s) ==
    \/ Connect(s)
    \/ ClientClose(s)
    \/ \E line \in Lexicon : PollRead(s, line)
    \/ PollEOF(s)
    \/ \E line \in ListLexicon : ListRead(s, line)
    \/ ListEOF(s)
    \/ ExecSub(s, MaxVersion)
    \/ IdleWake(s)
    \/ \E line \in IdleLexicon : IdleLine(s, line)
    \/ IdleEOF(s)

Next ==
    \/ Session("A")
    \/ \E w \in {"A", Poller} : EventFetch(w) \/ EventSend(w)
    \/ \E S \in Subsystems : PollerDetect(S, MaxVersion)

Spec == Init /\ [][Next]_vars

\* the steps a session task takes without new input from its client, which the
\* runtime schedules and the backend answers
Internal(s, cap) ==
    \/ PollEOF(s)
    \/ ListEOF(s)
    \/ ExecSub(s, cap)
    \/ IdleWake(s)
    \/ IdleEOF(s)
    \/ EventFetch(s)
    \/ EventSend(s)
PollerStep == EventFetch(Poller) \/ EventSend(Poller)

FairSpec ==
    Spec /\ WF_vars(Internal("A", MaxVersion)) /\ WF_vars(PollerStep)

\* ------------------------------------------------------------ several sessions
\* two clients that idle and one that seeks, beside the poller
Idlers == {"A", "B"}
Seeker == "C"
IdlerLexicon == {Sub(Idle({"player"}))}

NextIdle ==
    \/ \E s \in Idlers :
          \/ Connect(s)
          \/ ClientClose(s)
          \/ \E line \in IdlerLexicon : PollRead(s, line)
          \/ PollEOF(s)
          \/ ExecSub(s, MaxRace)
          \/ IdleWake(s)
          \/ IdleLine(s, Sub(NoIdle))
          \/ IdleEOF(s)
    \/ Connect(Seeker)
    \/ PollRead(Seeker, Sub(Cmd("seekcur")))
    \/ ExecSub(Seeker, MaxRace)
    \/ \E w \in {Seeker, Poller} : EventFetch(w) \/ EventSend(w)
    \/ PollerDetect("player", MaxRace)

SpecIdle == Init /\ [][NextIdle]_vars

FairIdle ==
    /\ SpecIdle
    /\ \A s \in Sessions : WF_vars(Internal(s, MaxRace))
    /\ WF_vars(PollerStep)

\* ------------------------------------------------------- the tokenizers
\* usize is UsizeBits wide; integers up to UsizeMax + MaxOver are tried
UsizeBits == 8
UsizeMax == 2^UsizeBits - 1
MaxOver == 45
MaxInt == UsizeMax + MaxOver
\* argument bytes are padded with at most MaxPad spaces on either side
MaxPad == 2
\* range ends tried: 0..MaxEnd and UsizeMax
MaxEnd == 11
\* argument strings of at most MaxArg bytes over Alphabet are tried
MaxArg == 4

\* bytes are one-character strings, byte strings are sequences of them
DigitChars == <<"0", "1", "2", "3", "4", "5", "6", "7", "8", "9">>
IsDigit(b) == \E i \in 1..10 : DigitChars[i] = b
DigitValue(b) == (CHOOSE i \in 1..10 : DigitChars[i] = b) - 1
From(bytes, i) == SubSeq(bytes, i, Len(bytes))
\* index of the first b in bytes, 0 when there is none
Position(bytes, b) ==
    IF \E i \in 1..Len(bytes) : bytes[i] = b
    THEN CHOOSE i \in 1..Len(bytes) :
            bytes[i] = b /\ \A j \in 1..(i - 1) : bytes[j] # b
    ELSE 0

\* the decimal digits of n, as a client writes them
RECURSIVE Decimal(_)
Decimal(n) ==
    IF n < 10 THEN <<DigitChars[n + 1]>>
    ELSE Append(Decimal(n \div 10), DigitChars[(n % 10) + 1])

\* Result<(usize, &[u8]), IntParseError>; num = -1 stands for None
IntOk(num, rest) ==
    [ok |-> TRUE, err |-> "", num |-> num, pos |-> 0, rest |-> rest]
IntErr(err) ==
    [ok |-> FALSE, err |-> err, num |-> -1, pos |-> 0, rest |-> <<>>]
InvalidDigit(num, pos) ==
    [ok |-> FALSE, err |-> "InvalidDigit", num |-> num, pos |-> pos, rest |-> <<>>]

\* a parse_integer whose arithmetic wraps instead of being checked
parse_integer_wrapping(delimiter, bytes) ==
    IF bytes = <<>> THEN IntErr("Empty")
    ELSE LET first == Head(bytes)
             rest == Tail(bytes)
             RECURSIVE scan(_, _)
             scan(num, i) ==
                 IF i = Len(rest)
                 THEN (IF delimiter = " " THEN IntOk(num, <<>>)
                       ELSE IntErr("MissingClosingDelimiter"))
                 ELSE LET b == rest[i + 1] IN
                      IF IsDigit(b)
                      THEN scan((num * 10 + DigitValue(b)) % (UsizeMax + 1), i + 1)
                      ELSE IF b = delimiter THEN IntOk(num, From(rest, i + 2))
                      ELSE InvalidDigit(num, 1 + i)
         IN IF IsDigit(first) THEN scan(DigitValue(first), 0)
            ELSE IF first = delimiter THEN IntErr("Empty")
            ELSE InvalidDigit(-1, 0)

parse_integer(delimiter, bytes) ==
    IF bytes = <<>> THEN IntErr("Empty")
    ELSE LET first == Head(bytes)
             rest == Tail(bytes)
             RECURSIVE scan(_, _)
             scan(num, i) ==
                 IF i = Len(rest)
                 THEN (IF delimiter = " " THEN IntOk(num, <<>>)
                       ELSE IntErr("MissingClosingDelimiter"))
                 ELSE LET b == rest[i + 1] IN
                      IF IsDigit(b)
                      THEN (IF num * 10 + DigitValue(b) > UsizeMax
                            THEN IntErr("Overflow")
                            ELSE scan(num * 10 + DigitValue(b), i + 1))
                      ELSE IF b = delimiter THEN IntOk(num, From(rest, i + 2))
                      ELSE InvalidDigit(num, 1 + i)
         IN IF IsDigit(first) THEN scan(DigitValue(first), 0)
            ELSE IF first = delimiter THEN IntErr("Empty")
            ELSE InvalidDigit(-1, 0)

\* a usize::from_bytes that knows no quotes
usize_from_bytes_bare(bytes) ==
    IF bytes = <<>> THEN IntErr("Empty") ELSE parse_integer(" ", bytes)

\* impl FromBytes for usize
usize_from_bytes(bytes) ==
    IF bytes = <<>> THEN IntErr("Empty")
    ELSE IF Head(bytes) = "\"" THEN parse_integer("\"", Tail(bytes))
    ELSE parse_integer(" ", bytes)

\* Result<(RangeInclusive<usize>, &[u8]), IntParseError>
RangeOk(lo, hi, rest) ==
    [ok |-> TRUE, err |-> "", lo |-> lo, hi |-> hi, rest |-> rest]
RangeErr(err) ==
    [ok |-> FALSE, err |-> err, lo |-> 0, hi |-> 0, rest |-> <<>>]

\* a range parser that refuses a start above the end
range_from_bytes_ordered(bytes) ==
    LET r == usize_from_bytes(bytes) IN
    IF r.ok THEN RangeOk(r.num, r.num, r.rest)
    ELSE IF r.err = "InvalidDigit" /\ r.num >= 0 /\ bytes[r.pos + 1] = ":"
    THEN LET e == usize_from_bytes(From(bytes, r.pos + 2)) IN
         IF e.ok /\ r.num <= e.num THEN RangeOk(r.num, e.num, e.rest)
         ELSE RangeErr(IF e.ok THEN "InvalidDigit" ELSE e.err)
    ELSE RangeErr(r.err)

\* impl FromBytes for RangeInclusive<usize>
range_from_bytes(bytes) ==
    LET r == usize_from_bytes(bytes) IN
    IF r.ok THEN RangeOk(r.num, r.num, r.rest)
    ELSE IF r.err = "InvalidDigit" /\ r.num >= 0 /\ bytes[r.pos + 1] = ":"
    THEN LET e == usize_from_bytes(From(bytes, r.pos + 2)) IN
         IF e.ok THEN RangeOk(r.num, e.num, e.rest) ELSE RangeErr(e.err)
    ELSE RangeErr(r.err)

\* Result<(BString, &[u8]), BStringParseError>
StrOk(val, rest) == [ok |-> TRUE, err |-> "", val |-> val, rest |-> rest]
StrErr(err) == [ok |-> FALSE, err |-> err, val |-> <<>>, rest |-> <<>>]

unescape_arg(delimiter, arg) ==
    LET RECURSIVE scan(_, _)
        scan(i, out) ==
            IF i > Len(arg) THEN StrErr("MissingClosingDelimiter")
            ELSE IF arg[i] = "\\"
            THEN (IF i + 1 > Len(arg) THEN StrErr("BadEscapeSequence")
                  ELSE scan(i + 2, Append(out, arg[i + 1])))
            ELSE IF arg[i] = delimiter THEN StrOk(out, From(arg, i + 1))
            ELSE scan(i + 1, Append(out, arg[i]))
    IN scan(1, <<>>)

\* impl FromBytes for BString
bstring_from_bytes(bytes) ==
    IF bytes = <<>> THEN StrErr("Empty")
    ELSE IF Head(bytes) \in {"\"", "'"} THEN unescape_arg(Head(bytes), Tail(bytes))
    ELSE IF Head(bytes) = " " THEN StrErr("Empty")
    ELSE LET pos == Position(bytes, " ") IN
         IF pos > 0 THEN StrOk(SubSeq(bytes, 1, pos - 1), From(bytes, pos + 1))
         ELSE StrOk(bytes, <<>>)

\* a skip_whitespace that skips nothing
skip_whitespace_none(bytes) == bytes

RECURSIVE skip_whitespace(_)
skip_whitespace(bytes) ==
    IF bytes # <<>> /\ Head(bytes) = " " THEN skip_whitespace(Tail(bytes))
    ELSE bytes

\* Display of IntParseError and BStringParseError
ErrorText(err) ==
    CASE err = "Empty" -> "Invalid empty value"
      [] err = "InvalidDigit" -> "Invalid digit"
      [] err = "Overflow" -> "Integer overflow"
      [] err = "MissingClosingDelimiter" -> "Missing closing"
      [] err = "BadEscapeSequence" -> "Bad escape sequence"
      [] OTHER -> ""

\* ------------------------------------------------------- parse_command
\* MPDSubCommand as parse_command builds it: v is the variant, nums its
\* integers (a range is two of them); an Invalid carries name, the ACK
\* code of its reason and the words of its message
Typed(v, nums) ==
    [v |-> v, nums |-> nums, name |-> v, code |-> 0, msg |-> <<>>]
InvalidCmd(name, code, msg) ==
    [v |-> "invalid", nums |-> <<>>, name |-> name, code |-> code, msg |-> msg]
\* parse_command did not return: an unwrap() of an Err panicked
Panicked ==
    [v |-> "panic", nums |-> <<>>, name |-> "", code |-> 0, msg |-> <<>>]
InvalidArgument == 2
Unknown == 5
WrongNumber(name) == <<"wrong number of arguments for", name>>

\* a fallthrough that keeps the name in the Invalid
unknown_command_named(name) ==
    InvalidCmd(name, Unknown, <<"unknown command", name>>)

\* the final else of parse_command
unknown_command(name) ==
    InvalidCmd("", Unknown, <<"unknown command", name>>)

\* a parse_command that ends without looking at the remaining bytes
trailing_check_none(name, args, cmd) == cmd

\* the end of parse_command: bytes left over make the command Invalid
trailing_check(name, args, cmd) ==
    IF args = <<>> THEN cmd
    ELSE InvalidCmd(name, InvalidArgument, WrongNumber(name))

\* next_arg!: ok with the argument and the remaining bytes, or the Invalid
\* that the macro returns from parse_command
next_arg(name, args, ty) ==
    IF args = <<>>
    THEN [ok |-> FALSE, arg |-> <<>>, rest |-> <<>>,
          invalid |-> InvalidCmd(name, InvalidArgument, WrongNumber(name))]
    ELSE IF ty = "usize"
    THEN LET r == usize_from_bytes(args) IN
         [ok |-> r.ok, arg |-> r.num, rest |-> skip_whitespace(r.rest),
          invalid |-> InvalidCmd(name, InvalidArgument, <<ErrorText(r.err)>>)]
    ELSE LET r == bstring_from_bytes(args) IN
         [ok |-> r.ok, arg |-> r.val, rest |-> skip_whitespace(r.rest),
          invalid |-> InvalidCmd(name, InvalidArgument, <<ErrorText(r.err)>>)]

parse_setvol(name, args) ==
    LET a == next_arg(name, args, "usize") IN
    IF ~a.ok THEN a.invalid
    ELSE trailing_check(name, a.rest, Typed("setvol", <<a.arg>>))

parse_swap(name, args) ==
    LET a == next_arg(name, args, "usize") IN
    IF ~a.ok THEN a.invalid
    ELSE LET b == next_arg(name, a.rest, "usize") IN
         IF ~b.ok THEN b.invalid
         ELSE trailing_check(name, b.rest, Typed("swap", <<a.arg, b.arg>>))

parse_delete(name, args) ==
    LET a == next_arg(name, args, "BString") IN
    IF ~a.ok THEN a.invalid
    ELSE LET r == range_from_bytes(a.arg) IN
         IF ~r.ok THEN Panicked
         ELSE trailing_check(name, a.rest, Typed("delete", <<r.lo, r.hi>>))

parse_playlistinfo(name, args) ==
    IF args = <<>> THEN trailing_check(name, args, Typed("playlistinfo", <<>>))
    ELSE LET a == next_arg(name, args, "BString") IN
         IF ~a.ok THEN a.invalid
         ELSE LET r == range_from_bytes(a.arg) IN
              IF ~r.ok THEN Panicked
              ELSE trailing_check(name, a.rest, Typed("playlistinfo", <<r.lo, r.hi>>))

\* the range is read from args but args is left as it was
parse_plchanges(name, args) ==
    LET v == next_arg(name, args, "usize") IN
    IF ~v.ok THEN v.invalid
    ELSE IF v.rest = <<>> THEN trailing_check(name, v.rest, Typed(name, <<v.arg>>))
    ELSE LET b == bstring_from_bytes(v.rest) IN
         IF ~b.ok THEN Panicked
         ELSE LET r == range_from_bytes(b.val) IN
              IF ~r.ok THEN Panicked
              ELSE trailing_check(name, v.rest,
                                  Typed(name, <<v.arg, r.lo, r.hi>>))

\* pause [0|1] and random 0|1: the boolean is read as a usize
parse_boolean(name, args, optional) ==
    IF optional /\ args = <<>> THEN trailing_check(name, args, Typed(name, <<>>))
    ELSE LET a == next_arg(name, args, "usize") IN
         IF ~a.ok THEN a.invalid
         ELSE trailing_check(name, a.rest,
                  IF a.arg \in {0, 1} THEN Typed(name, <<a.arg>>)
                  ELSE InvalidCmd(name, Unknown,
                                  <<"Boolean (0/1) expected:", a.arg>>))

\* u8::make_ascii_lowercase on the letters the lines are written with
make_ascii_lowercase(bytes) ==
    LET UpperChars == <<"D", "O", "R", "S", "T", "W">>
        LowerChars == <<"d", "o", "r", "s", "t", "w">>
    IN [i \in 1..Len(bytes) |->
           IF \E j \in 1..Len(UpperChars) : UpperChars[j] = bytes[i]
           THEN LowerChars[CHOOSE j \in 1..Len(UpperChars) : UpperChars[j] = bytes[i]]
           ELSE bytes[i]]

\* TagType::from_bytes on the tag names the lines are written with
TagNames == {<<"n", "a", "m", "e">>, <<"d", "a", "t", "e">>}
FilterKeywords == {<<"s", "o", "r", "t">>, <<"w", "i", "n", "d", "o", "w">>}

\* find and search: TAG VALUE pairs; at sort or window the loop is left with
\* args still holding the keyword
parse_find(name, args) ==
    LET RECURSIVE scan(_, _)
        scan(rem, filters) ==
            IF rem = <<>> THEN trailing_check(name, rem, Typed(name, filters))
            ELSE LET a == next_arg(name, rem, "BString")
                     arg == make_ascii_lowercase(a.arg)
                 IN IF ~a.ok THEN a.invalid
                    ELSE IF arg \in FilterKeywords
                    THEN trailing_check(name, rem, Typed(name, filters))
                    ELSE IF arg \notin TagNames
                    THEN InvalidCmd(name, InvalidArgument, <<"Unknown filter type:", arg>>)
                    ELSE LET v == next_arg(name, a.rest, "BString") IN
                         IF ~v.ok THEN v.invalid
                         ELSE scan(v.rest, Append(filters, <<arg, v.arg>>))
    IN scan(args, <<>>)

Supported ==
    {"setvol", "swap", "delete", "playlistinfo", "plchanges", "plchangesposid",
     "clear", "pause", "random", "find", "search"}

parse_command(name, bytes) ==
    LET args == skip_whitespace(bytes) IN
    CASE name = "clear" -> trailing_check(name, args, Typed("clear", <<>>))
      [] name = "delete" -> parse_delete(name, args)
      [] name = "playlistinfo" -> parse_playlistinfo(name, args)
      [] name \in {"plchanges", "plchangesposid"} -> parse_plchanges(name, args)
      [] name \in {"find", "search"} -> parse_find(name, args)
      [] name = "pause" -> parse_boolean(name, args, TRUE)
      [] name = "random" -> parse_boolean(name, args, FALSE)
      [] name = "setvol" -> parse_setvol(name, args)
      [] name = "swap" -> parse_swap(name, args)
      [] OTHER -> unknown_command(name)

\* ------------------------------------------------------- one line served
\* CommandError::send with its message
AckMsg(code, i, name, msg) ==
    [k |-> "ACK", code |-> code, idx |-> i, arg |-> name, msg |-> msg]

\* the handler call of a typed command, with its arguments; plchanges
\* passes its range only
HandlerCall(cmd) ==
    CASE cmd.v = "clear" -> <<"queue_clear">>
      [] cmd.v = "delete" -> <<"queue_delete">> \o cmd.nums
      [] cmd.v = "swap" -> <<"queue_swap">> \o cmd.nums
      [] cmd.v = "setvol" -> <<"volume_set">> \o cmd.nums
      [] cmd.v = "playlistinfo" -> <<"queue_list">> \o cmd.nums
      [] cmd.v \in {"plchanges", "plchangesposid"} -> <<"queue_list">> \o Tail(cmd.nums)
      [] cmd.v \in {"pause", "random"} -> <<cmd.v>> \o cmd.nums
      [] cmd.v \in {"find", "search"} -> <<"library_find">> \o cmd.nums

\* what the session wrote and called for the line, and whether its task
\* still runs
ServedAs(cmd, o) ==
    CASE cmd.v = "panic" -> [reply |-> <<>>, calls |-> <<>>, alive |-> FALSE]
      [] cmd.v = "invalid" ->
            [reply |-> <<AckMsg(cmd.code, 0, cmd.name, cmd.msg)>>,
             calls |-> <<>>, alive |-> TRUE]
      [] OTHER ->
            IF o # "fail"
            THEN [reply |-> (IF cmd.v \in {"playlistinfo", "plchanges",
                                           "plchangesposid", "find", "search"}
                             THEN <<Data("file")>> ELSE <<>>) \o <<OkLine>>,
                  calls |-> <<HandlerCall(cmd)>>, alive |-> TRUE]
            ELSE IF Propagates(cmd.v)
            THEN [reply |-> <<>>, calls |-> <<HandlerCall(cmd)>>, alive |-> FALSE]
            ELSE [reply |-> <<AckMsg(Unknown, 0, cmd.v, <<"backend error">>)>>,
                  calls |-> <<HandlerCall(cmd)>>, alive |-> TRUE]

\* ------------------------------------------------------- lines received
\* a line as parse_command_line splits it: the name and the bytes after the
\* first space; from records how the bytes were written
Written(name, args, shape, a, b, quoted) ==
    [name |-> name, args |-> args, shape |-> shape, a |-> a, b |-> b,
     quoted |-> quoted]

Names == (Supported \ {"find", "search"}) \cup {"bogus", "SETVOL"}
Alphabet == {"1", "x", ":", " ", "\""}
NonDigits == {"x", ":", " ", "\""}
Spaces(n) == [i \in 1..n |-> " "]
Quote(quoted, bytes) == IF quoted THEN <<"\"">> \o bytes \o <<"\"">> ELSE bytes
Ends == 0..MaxEnd \cup {UsizeMax}

\* any name with any short argument bytes
FreeLines ==
    {Written(name, args, "free", 0, 0, FALSE) :
        name \in Names, args \in UNION {[1..n -> Alphabet] : n \in 0..MaxArg}}

\* setvol with the digits of a, bare or quoted, padded with spaces
IntLines ==
    {Written("setvol", Spaces(p[1]) \o Quote(q, Decimal(a)) \o Spaces(p[2]),
             "int", a, p[1] + p[2], q) :
        a \in 0..MaxInt, q \in BOOLEAN, p \in (0..MaxPad) \X (0..MaxPad)}

\* setvol with the digits of a followed by a non-digit, bare or inside quotes
JunkLines ==
    {Written("setvol", Quote(TRUE, Append(Decimal(a), j)), "junk", a, 0, TRUE) :
        a \in 0..UsizeMax, j \in NonDigits \ {"\""}}
    \cup {Written("setvol", Append(Decimal(a), j), "junk", a, 0, FALSE) :
             a \in 0..UsizeMax, j \in NonDigits \ {" "}}

\* a command that takes a range, with the bytes a:b
RangeLines ==
    {Written(name, Decimal(a) \o <<":">> \o Decimal(b), "range", a, b, FALSE) :
        name \in {"delete", "playlistinfo"}, a \in Ends, b \in Ends}

\* the lexically invalid ranges
BadRangeLines ==
    {Written("delete", <<"a", "b", "c">>, "bad", 0, 0, FALSE),
     Written("delete", <<"2", ":">>, "bad", 0, 0, FALSE),
     Written("playlistinfo", <<"1", ":", "x">>, "bad", 0, 0, FALSE),
     Written("plchanges", <<"0", " ", "x">>, "bad", 0, 0, FALSE)}

\* plchanges and plchangesposid with a version and the range a:b
ChangesLines ==
    {Written(name, Decimal(v) \o <<" ">> \o Decimal(a) \o <<":">> \o Decimal(b),
             "changes", a, b, FALSE) :
        name \in {"plchanges", "plchangesposid"}, v \in {0, MaxEnd},
        a \in Ends, b \in Ends}

\* find and search with up to MaxFind words, one space between them
MaxFind == 4
FindLines ==
    LET FindWords == TagNames \cup FilterKeywords \cup {<<"S", "o", "r", "t">>, <<"x">>}
        RECURSIVE Joined(_)
        Joined(words) ==
            IF Len(words) = 0 THEN <<>>
            ELSE IF Len(words) = 1 THEN words[1]
            ELSE words[1] \o <<" ">> \o Joined(Tail(words))
    IN {Written(name, Joined(words), "find", Len(words), 0, FALSE) :
           name \in {"find", "search"},
           words \in UNION {[1..n -> FindWords] : n \in 0..MaxFind}}

Lines ==
    FreeLines \cup IntLines \cup JunkLines \cup RangeLines \cup BadRangeLines
        \cup ChangesLines \cup FindLines

\* ------------------------------------------------------- the pipeline
\* parse_command_line read a line with a non-empty name
Receive ==
    /\ stage = "wait"
    /\ \E l \in Lines : input' = l
    /\ stage' = "line"
    /\ UNCHANGED <<token, parsed, served>>
    /\ UNCHANGED <<tasks, apart>>

\* the two tokenizers applied to the argument bytes as they are
Tokenize ==
    /\ stage = "line"
    /\ token' = [int |-> usize_from_bytes(input.args),
                 range |-> range_from_bytes(input.args)]
    /\ stage' = "tokens"
    /\ UNCHANGED <<input, parsed, served>>
    /\ UNCHANGED <<tasks, apart>>

Parse ==
    /\ stage = "tokens"
    /\ parsed' = parse_command(input.name, input.args)
    /\ stage' = "parsed"
    /\ UNCHANGED <<input, token, served>>
    /\ UNCHANGED <<tasks, apart>>

\* MPDSubCommand::process on the parsed command, outside a list
Process ==
    /\ stage = "parsed"
    /\ \E o \in Outcomes(parsed) : served' = ServedAs(parsed, o)
    /\ stage' = "served"
    /\ UNCHANGED <<input, token, parsed>>
    /\ UNCHANGED <<tasks, apart>>

NextParse ==
    \/ Receive
    \/ Tokenize
    \/ Parse
    \/ Process

SpecParse == Init /\ [][NextParse]_vars

\* ------------------------------------------------------- the status block
\* the Option fields of MPDStatus; xfade is one of the three that fmt never
\* writes
OptionFields ==
    {"volume", "repeat", "random", "single", "consume", "playlist",
     "playlistlength", "song", "songid", "nextsong", "nextsongid", "elapsed",
     "duration", "xfade"}
Statuses ==
    [set : SUBSET OptionFields, state : {"play", "stop", "pause"}]
\* the value a field holds when it is Some
FieldValue(key) ==
    CASE key = "elapsed" -> 3
      [] key = "duration" -> 7
      [] OTHER -> 1

\* a Display that writes time whenever elapsed is set
StatusBlock_TimeOnElapsed(st) ==
    LET F(key) == IF key \in st.set
                  THEN <<[key |-> key, val |-> <<FieldValue(key)>>]>> ELSE <<>>
    IN <<[key |-> "partition", val |-> <<"default">>]>>
       \o F("volume") \o F("repeat") \o F("random") \o F("single") \o F("consume")
       \o F("playlist") \o F("playlistlength")
       \o <<[key |-> "state", val |-> <<st.state>>]>>
       \o F("song") \o F("songid") \o F("nextsong") \o F("nextsongid")
       \o (IF "elapsed" \in st.set
           THEN <<[key |-> "time",
                   val |-> <<FieldValue("elapsed"), FieldValue("duration")>>]>>
           ELSE <<>>)
       \o F("elapsed") \o F("duration")

\* impl Display for MPDStatus: one line per writeln!, in the order of the code
StatusBlock(st) ==
    LET F(key) == IF key \in st.set
                  THEN <<[key |-> key, val |-> <<FieldValue(key)>>]>> ELSE <<>>
    IN <<[key |-> "partition", val |-> <<"default">>]>>
       \o F("volume") \o F("repeat") \o F("random") \o F("single") \o F("consume")
       \o F("playlist") \o F("playlistlength")
       \o <<[key |-> "state", val |-> <<st.state>>]>>
       \o F("song") \o F("songid") \o F("nextsong") \o F("nextsongid")
       \o (IF "elapsed" \in st.set /\ "duration" \in st.set
           THEN <<[key |-> "time",
                   val |-> <<FieldValue("elapsed"), FieldValue("duration")>>]>>
           ELSE <<>>)
       \o F("elapsed") \o F("duration")

\* handler.status() returns some MPDStatus
StatusFetch ==
    /\ status = <<>>
    /\ \E st \in Statuses : status' = st
    /\ UNCHANGED <<tasks, parser, block, sources, lsurl, lsreply, tags, tagtypes, clock, poller, later>>

\* MPDStatus::send writes the block
StatusSend ==
    /\ status # <<>>
    /\ block = <<>>
    /\ block' = StatusBlock(status)
    /\ UNCHANGED <<tasks, parser, status, sources, lsurl, lsreply, tags, tagtypes, clock, poller, later>>

NextStatus ==
    \/ StatusFetch
    \/ StatusSend

SpecStatus == Init /\ [][NextStatus]_vars

\* ------------------------------------------------------- the library
\* a path is the sequence of its components; Path::strip_prefix compares
\* whole components
MaxSources == 2
MaxDepth == 2
StripPrefix(path, base) ==
    IF Len(base) <= Len(path) /\ SubSeq(path, 1, Len(base)) = base
    THEN [ok |-> TRUE, rest |-> From(path, Len(base) + 1)]
    ELSE [ok |-> FALSE, rest |-> <<>>]

\* the first source, in list order, that satisfies the test; 0 for None
FirstSource(srcs, Test(_)) ==
    IF \E i \in 1..Len(srcs) : Test(srcs[i])
    THEN CHOOSE i \in 1..Len(srcs) :
            Test(srcs[i]) /\ \A j \in 1..(i - 1) : ~Test(srcs[j])
    ELSE 0

\* a mapper that looks at the last source only
to_internal_last(srcs, external) ==
    IF srcs # <<>> /\ StripPrefix(external, srcs[Len(srcs)].label).ok
    THEN [found |-> TRUE,
          path |-> srcs[Len(srcs)].file
                   \o StripPrefix(external, srcs[Len(srcs)].label).rest]
    ELSE [found |-> FALSE, path |-> <<>>]

\* PathMapper::to_internal and to_external
to_internal(srcs, external) ==
    LET Test(src) == StripPrefix(external, src.label).ok
        i == FirstSource(srcs, Test)
    IN IF i = 0 THEN [found |-> FALSE, path |-> <<>>]
       ELSE [found |-> TRUE,
             path |-> srcs[i].file \o StripPrefix(external, srcs[i].label).rest]
to_external(srcs, internal) ==
    LET Test(src) == StripPrefix(internal, src.file).ok
        i == FirstSource(srcs, Test)
    IN IF i = 0 THEN [found |-> FALSE, path |-> <<>>]
       ELSE [found |-> TRUE,
             path |-> srcs[i].label \o StripPrefix(internal, srcs[i].file).rest]

\* the lists of sources the backend may report
SourceLists ==
    LET SourcePool ==
            {[label |-> <<"music">>, file |-> <<"nfs", "a">>],
             [label |-> <<"music">>, file |-> <<"smb">>],
             [label |-> <<"music", "live">>, file |-> <<"nfs", "a", "live">>],
             [label |-> <<"radio">>, file |-> <<"smb", "r">>]}
    IN UNION {[1..n -> SourcePool] : n \in 0..MaxSources}
Paths ==
    UNION {[1..n -> {"music", "live", "radio", "other"}] : n \in 0..MaxDepth}
\* LsInfo(Option<Url>): no url, a file url with a path, another scheme
Urls ==
    {[scheme |-> "none", path |-> <<>>], [scheme |-> "http", path |-> <<"music">>]}
        \cup {[scheme |-> "file", path |-> path] : path \in Paths}

\* KodiProxyCommandHandler::list_directory; o says which backend request, if
\* any, fails. The files of a directory are reported under its internal path.
list_directory(srcs, url, o) ==
    IF o = "sources" THEN [ok |-> FALSE, entries |-> <<>>]
    ELSE IF url.scheme = "http" THEN [ok |-> FALSE, entries |-> <<>>]
    ELSE IF url.path = <<>>
    THEN [ok |-> TRUE, entries |-> [i \in 1..Len(srcs) |-> srcs[i].label]]
    ELSE LET internal == to_internal(srcs, url.path) IN
         IF internal.found
         THEN (IF o = "directory" THEN [ok |-> FALSE, entries |-> <<>>]
               ELSE [ok |-> TRUE,
                     entries |->
                         <<to_external(srcs, Append(internal.path, "song")).path>>])
         ELSE [ok |-> TRUE, entries |-> <<>>]

\* lsinfo(): the entries and OK, or NoExist for an Err of the handler
lsinfo(srcs, url, o) ==
    LET r == list_directory(srcs, url, o) IN
    IF r.ok THEN [i \in 1..Len(r.entries) |-> Data(r.entries[i])] \o <<OkLine>>
    ELSE <<Ack(50, 0, "lsinfo")>>

\* an lsinfo line was parsed while the backend has some list of sources
LsRequest ==
    /\ lsurl = <<>>
    /\ \E srcs \in SourceLists, url \in Urls :
          /\ sources' = srcs
          /\ lsurl' = url
    /\ UNCHANGED <<tasks, parser, status, block, lsreply, tags, tagtypes, clock, poller, later>>

LsServe ==
    /\ lsurl # <<>>
    /\ lsreply = <<>>
    /\ \E o \in {"none", "sources", "directory"} :
          lsreply' = lsinfo(sources, lsurl, o)
    /\ UNCHANGED <<tasks, parser, status, block, sources, lsurl, tags, tagtypes, clock, poller, later>>

NextLibrary ==
    \/ LsRequest
    \/ LsServe

SpecLibrary == Init /\ [][NextLibrary]_vars

\* ------------------------------------------------------- the tag mask
\* TagTypesCommand
TagTypesCommands ==
    {[op |-> "all", set |-> {}], [op |-> "clear", set |-> {}], [op |-> "list", set |-> {}]}
        \cup {[op |-> op, set |-> set] :
                 op \in {"enable", "disable"}, set \in (SUBSET TagTypes) \ {{}}}

\* a tags_disable that keeps only the tags it is given
tags_disable_kept(mask, set) == mask \cap set

\* EnumSet::insert_all and remove_all on the handler's mask
tags_enable(mask, set) == mask \cup set
tags_disable(mask, set) == mask \ set

\* `for tag in tags`: the members of the mask in the order of the enum
RECURSIVE TagLines(_, _)
TagLines(mask, i) ==
    IF i > Len(TagOrder) THEN <<>>
    ELSE (IF TagOrder[i] \in mask THEN <<Data(TagOrder[i])>> ELSE <<>>)
         \o TagLines(mask, i + 1)

\* tagtypes() for the session's handler
TagTypesServe(s, cmd) ==
    /\ tags' = [tags EXCEPT ![s] =
                  CASE cmd.op = "all" -> tags_enable(@, TagTypes)
                    [] cmd.op = "clear" -> tags_disable(@, TagTypes)
                    [] cmd.op = "enable" -> tags_enable(@, cmd.set)
                    [] cmd.op = "disable" -> tags_disable(@, cmd.set)
                    [] OTHER -> @]
    /\ tagtypes' = [s |-> s, cmd |-> cmd,
                    turn |-> IF tagtypes = <<>> THEN 0 ELSE 1 - tagtypes.turn,
                    reply |-> (IF cmd.op = "list" THEN TagLines(tags[s], 1) ELSE <<>>)
                              \o <<OkLine>>]
    /\ UNCHANGED <<tasks, parser, status, block, sources, lsurl, lsreply, clock, poller, later>>

NextTags == \E s \in Sessions, cmd \in TagTypesCommands : TagTypesServe(s, cmd)

SpecTags == Init /\ [][NextTags]_vars

\* ------------------------------------------------- Duration and Time
\* The width of u64, scaled down: `duration.as_millis() as u64` keeps the low
\* MillisBits bits of the u128 count of milliseconds.
MillisBits == 24
MaxSecs == 135
MaxHours == 4

\* Duration with whole milliseconds: seconds and the milliseconds below one
Duration(secs, millis) == [secs |-> secs, millis |-> millis]
from_millis(ms) == Duration(ms \div 1000, ms % 1000)
as_millis(d) == d.secs * 1000 + d.millis

\* the seconds of the Durations examined: the first minutes one by one, the
\* ends of the hours, and the two sides of the first count of milliseconds
\* that does not fit the width (the seek commands make a Duration from any
\* number of seconds the client sends)
DurationSecs ==
    (0..MaxSecs)
    \cup {h * 3600 + m * 60 + sec : h \in 0..MaxHours, m \in {0, 59}, sec \in {0, 59}}
    \cup {(2 ^ MillisBits) \div 1000 + k : k \in 0..1}
Durations == {Duration(secs, ms) : secs \in DurationSecs, ms \in {0, 1, 999}}

\* From<Duration> for Time
time_from_duration(d) ==
    LET total == as_millis(d) % (2 ^ MillisBits) IN
    [milliseconds |-> total % 1000,
     seconds |-> (total \div 1000) % 60,
     minutes |-> ((total \div 1000) \div 60) % 60,
     hours |-> ((total \div 1000) \div 60) \div 60]

\* From<Time> for Duration
duration_from_time(t) ==
    LET minutes == t.hours * 60 + t.minutes
        seconds == minutes * 60 + t.seconds
        milliseconds == seconds * 1000 + t.milliseconds
    IN from_millis(milliseconds)

\* a Duration arrives (the time of a seek, the elapsed time of a player)
TimeGiven ==
    /\ duration = <<>>
    /\ \E d \in Durations : duration' = d
    /\ UNCHANGED <<tasks, parser, status, block, sources, lsurl, lsreply, tags,
                   tagtypes, time, back, poller, later>>

\* time.into()
TimeInto ==
    /\ duration # <<>>
    /\ time = <<>>
    /\ time' = time_from_duration(duration)
    /\ UNCHANGED <<tasks, parser, status, block, sources, lsurl, lsreply, tags,
                   tagtypes, duration, back, poller, later>>

\* Duration::from(time)
TimeBack ==
    /\ time # <<>>
    /\ back = <<>>
    /\ back' = duration_from_time(time)
    /\ UNCHANGED <<tasks, parser, status, block, sources, lsurl, lsreply, tags,
                   tagtypes, duration, time, poller, later>>

NextTime ==
    \/ TimeGiven
    \/ TimeInto
    \/ TimeBack

SpecTime == Init /\ [][NextTime]_vars

\* ------------------------------------------------------- the poll task
MaxTicks == 2

\* what the backend answers to Application.GetProperties
AppAnswers ==
    {[ok |-> FALSE, volume |-> None, muted |-> None]}
    \cup {[ok |-> TRUE, volume |-> Some(v), muted |-> Some(m)] :
            v \in {0, 1}, m \in BOOLEAN}

\* what it answers to Player.GetProperties: an error, a player that is not an
\* audio player, or the properties of an audio player
PlayerAnswers ==
    {[ok |-> FALSE, kind |-> "", position |-> None, speed |-> None,
      playlistid |-> None],
     [ok |-> TRUE, kind |-> "video", position |-> Some(0), speed |-> Some(1),
      playlistid |-> Some(1)]}
    \cup {[ok |-> TRUE, kind |-> "audio", position |-> Some(pos), speed |-> Some(sp),
           playlistid |-> pl] :
            pos \in {0, 1}, sp \in {0, 1}, pl \in {None, Some(0)}}

\* what it answers to Playlist.GetItems
ItemAnswers ==
    {[ok |-> FALSE, items |-> <<>>]}
    \cup {[ok |-> TRUE, items |-> it] : it \in {<<>>, <<"a">>, <<"a", "b">>}}

\* KodiPlayer::event_new, run by the poll task alone
event_new(k, S) ==
    [k EXCEPT !.subsystem_events[S] = @ + 1,
              !.subsystem_version = @ + 1,
              !.subsystem_notifier = [value |-> k.subsystem_version + 1,
                                      sends |-> @.sends + 1]]

\* a comparison that forgets the mute flag
app_changed_volume(k, props) == k.app_properties.volume # props.volume

\* refresh: self.volume() != props.volume || self.muted() != props.muted
app_changed(k, props) ==
    k.app_properties.volume # props.volume \/ k.app_properties.muted # props.muted

\* refresh: self.position() != props.position || self.speed() != props.speed
player_changed(k, props) ==
    k.player_properties.position # props.position
        \/ k.player_properties.speed # props.speed

\* ids.swap(current, ids.len() - 1); ids = &mut ids[..len - 1]
swap_remove(ids, current) ==
    [i \in 1..(Len(ids) - 1) |-> IF i = current + 1 THEN ids[Len(ids)] ELSE ids[i]]

\* refresh: the arm that stores the application's properties without looking
\* at the outcome of the request
refresh_app_unchecked(k, props) ==
    LET stored == [k EXCEPT !.app_properties =
                      [volume |-> props.volume, muted |-> props.muted]]
    IN IF app_changed(k, props) THEN event_new(stored, "mixer") ELSE stored

\* refresh: the match on the answer to Application.GetProperties
refresh_app(k, props) ==
    IF ~props.ok THEN k
    ELSE LET stored == [k EXCEPT !.app_properties =
                           [volume |-> props.volume, muted |-> props.muted]]
         IN IF app_changed(k, props) THEN event_new(stored, "mixer") ELSE stored

\* refresh(), from its start to the first request for a player's properties
RefreshApp ==
    /\ refresh.at = "sleep"
    /\ refresh.ticks < MaxTicks
    /\ \E props \in AppAnswers :
          /\ kodi' = refresh_app(kodi, props)
          /\ tick' = [app |-> [cached |-> kodi.app_properties, fetched |-> props],
                      player |-> <<>>, items |-> <<>>, probed |-> <<>>,
                      id |-> kodi.id,
                      events |-> kodi.subsystem_events,
                      sends |-> kodi.subsystem_notifier.sends]
    /\ refresh' = [at |-> "probe", ids |-> <<0, 1, 2>>, current |-> kodi.id,
                   ticks |-> refresh.ticks + 1]
    /\ UNCHANGED <<tasks, parser, status, block, sources, lsurl, lsreply, tags,
                   tagtypes, clock, later>>

\* one turn of `while !ids.is_empty()`
RefreshProbe ==
    /\ refresh.at = "probe"
    /\ LET player_id == refresh.ids[refresh.current + 1] IN
       \E props \in PlayerAnswers :
          IF props.ok /\ props.kind = "audio"
          THEN /\ kodi' = LET stored == [kodi EXCEPT
                                           !.id = refresh.current,
                                           !.player_properties =
                                              [position |-> props.position,
                                               speed |-> props.speed,
                                               playlistid |-> props.playlistid]]
                          IN IF player_changed(kodi, props)
                             THEN event_new(stored, "player") ELSE stored
               /\ refresh' = [refresh EXCEPT !.at = "playlist"]
               /\ tick' = [tick EXCEPT
                             !.player = [cached |-> kodi.player_properties,
                                         fetched |-> props],
                             !.probed = Append(@, [id |-> player_id, ok |-> TRUE,
                                                   kind |-> props.kind])]
          ELSE /\ kodi' = kodi
               /\ refresh' = [refresh EXCEPT
                                !.ids = swap_remove(@, refresh.current),
                                !.current = 0,
                                !.at = IF Len(refresh.ids) = 1 THEN "sleep" ELSE "probe"]
               /\ tick' = [tick EXCEPT !.probed = Append(@, [id |-> player_id,
                                                              ok |-> props.ok,
                                                              kind |-> props.kind])]
    /\ UNCHANGED <<tasks, parser, status, block, sources, lsurl, lsreply, tags,
                   tagtypes, clock, later>>

\* refresh_playlist(), then the break out of the loop and the sleep
RefreshPlaylist ==
    /\ refresh.at = "playlist"
    /\ refresh' = [refresh EXCEPT !.at = "sleep"]
    /\ IF kodi.player_properties.playlistid = None
       THEN UNCHANGED <<kodi, tick>>
       ELSE \E answer \in ItemAnswers :
               /\ kodi' = IF answer.ok /\ kodi.playlist_items # answer.items
                          THEN event_new([kodi EXCEPT !.playlist_items = answer.items],
                                         "playlist")
                          ELSE kodi
               /\ tick' = [tick EXCEPT !.items = [cached |-> kodi.playlist_items,
                                                  fetched |-> answer]]
    /\ UNCHANGED <<tasks, parser, status, block, sources, lsurl, lsreply, tags,
                   tagtypes, clock, later>>

NextPoll ==
    \/ RefreshApp
    \/ RefreshProbe
    \/ RefreshPlaylist

SpecPoll == Init /\ [][NextPoll]_vars

\* every request of the poll task is answered, with a result or with an error,
\* and the sleep between two ticks ends
FairPoll == SpecPoll /\ WF_vars(NextPoll)

\* ------------------------------------------------------- the PathMapper
\* internal paths: the components of the sources' files and below them
Files ==
    UNION {[1..n -> {"nfs", "a", "live", "smb", "r"}] : n \in 0..(MaxDepth + 1)}

\* a handler operation builds a PathMapper from the backend's sources and has
\* a path to translate
MapGiven ==
    /\ mapped = <<>>
    /\ \E srcs \in SourceLists, way \in {"to_internal", "to_external"} :
          \E path \in IF way = "to_internal" THEN Paths ELSE Files :
             mapped' = [sources |-> srcs, way |-> way, path |-> path, done |-> FALSE,
                        result |-> [found |-> FALSE, path |-> <<>>]]
    /\ UNCHANGED <<tasks, parser, settled, compiled, seeker, queue, wire>>

\* path_mapper.to_internal(path) / path_mapper.to_external(path)
MapApply ==
    /\ mapped # <<>>
    /\ ~mapped.done
    /\ mapped' = [mapped EXCEPT
                    !.done = TRUE,
                    !.result = IF mapped.way = "to_internal"
                               THEN to_internal(mapped.sources, mapped.path)
                               ELSE to_external(mapped.sources, mapped.path)]
    /\ UNCHANGED <<tasks, parser, settled, compiled, seeker, queue, wire>>

NextMapper ==
    \/ MapGiven
    \/ MapApply

SpecMapper == Init /\ [][NextMapper]_vars

\* ------------------------------------------------------- library_find
\* usize in the arithmetic of the filter, scaled down from 64 bits; the track
\* number keeps the 16 bits of u16 and the shift its 16
WordBits == 24
TrackBits == 16
Discs == 64
MaxTerms == 2

\* usize::from_str_radix(value, 10) and u16::from_str_radix(value, 10): an
\* optional +, then digits only, and a value that fits the width
from_str_radix(bytes, bits) ==
    LET digits == IF bytes # <<>> /\ Head(bytes) = "+" THEN Tail(bytes) ELSE bytes
        RECURSIVE scan(_, _)
        scan(num, i) ==
            IF i > Len(digits) THEN [ok |-> TRUE, num |-> num]
            ELSE IF num * 10 + DigitValue(digits[i]) > 2 ^ bits - 1
            THEN [ok |-> FALSE, num |-> 0]
            ELSE scan(num * 10 + DigitValue(digits[i]), i + 1)
    IN IF digits = <<>> \/ \E i \in 1..Len(digits) : ~IsDigit(digits[i])
       THEN [ok |-> FALSE, num |-> 0]
       ELSE scan(0, 1)

\* disc << 16 on a usize: the bits shifted beyond the width are dropped
shl(x, k) == (x % 2 ^ (WordBits - k)) * 2 ^ k

\* SongsFiler::Rule(SongsRule { field, operator, value })
Rule(field, operator, value) ==
    [ok |-> TRUE, field |-> field, operator |-> operator, value |-> value]
Unsupported == [ok |-> FALSE, field |-> "", operator |-> "", value |-> <<>>]

\* library_find: the arm of `match tag_filter.tag` for one filter
compile_term(t) ==
    CASE t.tag = "Artist" -> Rule("artist", "is", <<t.value>>)
      [] t.tag = "Date" -> Rule("year", "is", <<t.value>>)
      [] t.tag = "Disc" ->
            LET disc == from_str_radix(t.value, WordBits) IN
            IF disc.ok
            THEN Rule("track", "between",
                      <<Decimal(shl(disc.num, TrackBits)),
                        Decimal(shl(disc.num, TrackBits) + (2 ^ TrackBits - 1) - 1)>>)
            ELSE Rule("track", "is", <<t.value>>)
      [] t.tag = "Track" ->
            LET track == from_str_radix(t.value, TrackBits) IN
            IF track.ok
            THEN Rule("track", "is",
                      [disc \in 1..Discs |-> Decimal(disc * 2 ^ TrackBits + track.num)])
            ELSE Rule("track", "is", <<t.value>>)
      [] OTHER -> Unsupported

\* library_find: the loop over the filters; the rules are joined by `and`
compile(terms) ==
    IF \E i \in 1..Len(terms) : ~compile_term(terms[i]).ok
    THEN [ok |-> FALSE, rules |-> <<>>]
    ELSE [ok |-> TRUE, rules |-> [i \in 1..Len(terms) |-> compile_term(terms[i])]]

\* the numbers and the other values a client puts after a tag
TermNumbers ==
    {0, 1, Discs, Discs + 1, 2 ^ TrackBits - 1, 2 ^ TrackBits,
     2 ^ (WordBits - TrackBits) - 1, 2 ^ (WordBits - TrackBits),
     2 ^ (WordBits - TrackBits) + 1, 2 ^ WordBits - 1}
TermValues ==
    {Decimal(n) : n \in TermNumbers}
    \cup {<<"+", "5">>, <<"0", "7">>, <<"x">>, <<"1", "x">>, <<>>,
          Append(Decimal(2 ^ WordBits - 1), "0")}
Terms == [tag : {"Artist", "Date", "Disc", "Track", "Name"}, value : TermValues]

\* a find or search with its filters was parsed
FindGiven ==
    /\ compiled = <<>>
    /\ \E n \in 1..MaxTerms : \E terms \in [1..n -> Terms] :
          compiled' = [terms |-> terms, done |-> FALSE, ok |-> FALSE,
                       rules |-> <<>>, alive |-> TRUE, reply |-> <<>>]
    /\ UNCHANGED <<tasks, parser, settled, mapped, seeker, queue, wire>>

\* find() / search(): library_find compiles the filter, asks the backend for
\* its sources (unwrap) and for the songs, and the songs or the error are
\* written; then MPDCommand::process writes OK or the ACK
FindServe ==
    /\ compiled # <<>>
    /\ ~compiled.done
    /\ LET c == compile(compiled.terms) IN
       \E o \in {"ok", "sources", "songs"} :
          compiled' = [compiled EXCEPT
                         !.done = TRUE,
                         !.ok = c.ok,
                         !.rules = c.rules,
                         !.alive = ~(c.ok /\ o = "sources"),
                         !.reply = IF ~c.ok \/ o = "songs"
                                   THEN <<Ack(Unknown, 0, "find")>>
                                   ELSE IF o = "sources" THEN <<>>
                                   ELSE <<Data("file"), OkLine>>]
    /\ UNCHANGED <<tasks, parser, settled, mapped, seeker, queue, wire>>

NextFilter ==
    \/ FindGiven
    \/ FindServe

SpecFilter == Init /\ [][NextFilter]_vars

\* ------------------------------------------------------- seek and seekid
\* the queue holds at most MaxQueue items; song ids are taken from SongIds
MaxQueue == 3
SongIds == {7, 8}

\* the element of Some(v)
Unwrap(opt) == CHOOSE v \in opt : TRUE

\* the requests a handler sends to the backend
PlayerOpenAt(id, position) == [method |-> "Player.Open", id |-> id, position |-> position]
PlayerSeekTime(id) == [method |-> "Player.Seek", id |-> id, position |-> 0]

\* KodiProxyCommandHandler::song_id_to_pos: the items are walked from the last
\* to the first; positions count from 0
song_id_to_pos(items, songid) ==
    IF \E i \in 1..Len(items) : items[i] = songid
    THEN Some((CHOOSE i \in 1..Len(items) :
                  items[i] = songid /\ \A j \in (i + 1)..Len(items) : items[j] # songid)
              - 1)
    ELSE None

\* a seek that opens the song whatever the current position is
seek_opening(k, song, o) ==
    IF k.player_properties.playlistid = None
    THEN [requests |-> <<>>, raised |-> 0, ok |-> TRUE]
    ELSE LET position == IF song.by = "id" THEN song_id_to_pos(k.playlist_items, song.n)
                         ELSE Some(song.n)
         IN IF position = None THEN [requests |-> <<>>, raised |-> 0, ok |-> TRUE]
            ELSE LET open == <<PlayerOpenAt(Unwrap(k.player_properties.playlistid),
                                            Unwrap(position))>>
                 IN IF o = "open" THEN [requests |-> open, raised |-> 0, ok |-> FALSE]
                    ELSE [requests |-> Append(open, PlayerSeekTime(k.id)),
                          raised |-> IF o = "seek" THEN 0 ELSE 1,
                          ok |-> o # "seek"]

\* KodiProxyCommandHandler::seek; o names the request that fails, if one does.
\* The answer holds the requests sent, how often event_new(Player) was called
\* and whether Ok(()) was returned.
seek(k, song, o) ==
    IF k.player_properties.playlistid = None
    THEN [requests |-> <<>>, raised |-> 0, ok |-> TRUE]
    ELSE LET position == IF song.by = "id" THEN song_id_to_pos(k.playlist_items, song.n)
                         ELSE Some(song.n)
         IN IF position = None THEN [requests |-> <<>>, raised |-> 0, ok |-> TRUE]
            ELSE LET open == IF k.player_properties.position # position
                             THEN <<PlayerOpenAt(Unwrap(k.player_properties.playlistid),
                                                 Unwrap(position))>>
                             ELSE <<>>
                 IN IF open # <<>> /\ o = "open"
                    THEN [requests |-> open, raised |-> 0, ok |-> FALSE]
                    ELSE [requests |-> Append(open, PlayerSeekTime(k.id)),
                          raised |-> IF o = "seek" THEN 0 ELSE 1,
                          ok |-> o # "seek"]

\* what the poll task has cached when the command arrives
SeekCaches ==
    {[KodiPlayer_new EXCEPT
         !.player_properties = [position |-> pos, speed |-> Some(1), playlistid |-> pl],
         !.playlist_items = items] :
       pos \in {None} \cup {Some(p) : p \in 0..(MaxQueue - 1)},
       pl \in {None, Some(0)},
       items \in UNION {[1..n -> SongIds] : n \in 0..MaxQueue}}
\* QueueSong::Pos of seek and QueueSong::Id of seekid
QueueSongs ==
    {[by |-> "pos", n |-> n] : n \in 0..(MaxQueue - 1)}
        \cup {[by |-> "id", n |-> n] : n \in SongIds \cup {9}}

\* a seek or a seekid was parsed
SeekGiven ==
    /\ seeker = <<>>
    /\ \E k \in SeekCaches, song \in QueueSongs :
          seeker' = [player |-> k, song |-> song, done |-> FALSE, outcome |-> "",
                     requests |-> <<>>, raised |-> 0, reply |-> <<>>, alive |-> TRUE]
    /\ UNCHANGED <<tasks, parser, settled, mapped, compiled, queue, wire>>

\* the Seek / SeekId arm: handler.seek(..).await?, then Ok(Ok(())) and the OK
\* of MPDCommand::process
SeekServe ==
    /\ seeker # <<>>
    /\ ~seeker.done
    /\ \E o \in {"none", "open", "seek"} :
          LET r == seek(seeker.player, seeker.song, o) IN
          seeker' = [seeker EXCEPT
                       !.done = TRUE,
                       !.outcome = o,
                       !.requests = r.requests,
                       !.raised = r.raised,
                       !.alive = r.ok,
                       !.reply = IF r.ok THEN <<OkLine>> ELSE <<>>]
    /\ UNCHANGED <<tasks, parser, settled, mapped, compiled, queue, wire>>

NextSeek ==
    \/ SeekGiven
    \/ SeekServe

SpecSeek == Init /\ [][NextSeek]_vars

\* ------------------------------------------------- the stream during idle
\* the client's lines reach the session in at most MaxPieces pieces, and the
\* poll task publishes at most MaxNotes versions while they do
MaxPieces == 3
MaxNotes == 2

Newline == "\n"
NoIdleBytes == <<"n", "o", "i", "d", "l", "e">>
PingBytes == <<"p", "i", "n", "g">>
\* what a client sends after idle: noidle and then a command, or a command
Scripts == {<<NoIdleBytes, PingBytes>>, <<PingBytes, NoIdleBytes>>}
Bytes(script) == script[1] \o <<Newline>> \o script[2] \o <<Newline>>

\* the pieces of text between the cuts, cuts being an increasing sequence of
\* positions
RECURSIVE Pieces(_, _, _)
Pieces(text, cuts, start) ==
    IF cuts = <<>> THEN <<SubSeq(text, start, Len(text))>>
    ELSE <<SubSeq(text, start, Head(cuts))>> \o Pieces(text, Tail(cuts), Head(cuts) + 1)
Cuts(n) ==
    {<<>>} \cup {<<i>> : i \in 1..(n - 1)}
        \cup {<<i, j>> : i \in 1..(n - 1), j \in 2..(n - 1)}

\* parse_command_line on a complete line, its newline popped: the name is
\* what stands before the first space; an empty name is Ok(None)
line_command(line) ==
    LET p == Position(line, " ")
        name == IF p = 0 THEN line ELSE SubSeq(line, 1, p - 1)
    IN CASE name = <<>> -> "none"
         [] name = NoIdleBytes -> "noidle"
         [] name = PingBytes -> "ping"
         [] OTHER -> "invalid"

\* parse_command_line begins with buf.clear(): what an abandoned read_until
\* had appended to the line buffer is dropped
cleared(b) == <<>>

\* a session has entered the Idle arm; the client will send a script
WireStart ==
    /\ wire = <<>>
    /\ \E script \in Scripts : \E cuts \in Cuts(Len(Bytes(script))) :
          /\ Len(cuts) < MaxPieces
          /\ Len(cuts) = 2 => cuts[1] < cuts[2]
          /\ wire' = [at |-> "idle", script |-> script,
                      unsent |-> Pieces(Bytes(script), cuts, 1),
                      stream |-> <<>>, buf |-> <<>>, notes |-> 0,
                      out |-> <<>>, parsed |-> <<>>]
    /\ UNCHANGED <<tasks, parser, settled, mapped, compiled, seeker, queue>>

\* the next piece arrives at the socket
WireArrive ==
    /\ wire # <<>>
    /\ wire.unsent # <<>>
    /\ wire' = [wire EXCEPT !.unsent = Tail(@), !.stream = @ \o Head(wire.unsent)]
    /\ UNCHANGED <<tasks, parser, settled, mapped, compiled, seeker, queue>>

\* read_until(b'\n', buf) is polled with bytes available: it appends them to
\* buf up to the newline; with the newline the line is parsed and answered,
\* by the Idle arm or by Server::poll
WireRead ==
    /\ wire # <<>>
    /\ wire.at \in {"idle", "read"}
    /\ wire.stream # <<>>
    /\ LET p == Position(wire.stream, Newline) IN
       IF p = 0
       THEN wire' = [wire EXCEPT !.buf = @ \o wire.stream, !.stream = <<>>]
       ELSE LET line == wire.buf \o SubSeq(wire.stream, 1, p - 1)
                cmd == line_command(line)
            IN wire' = [wire EXCEPT
                          !.buf = <<>>,
                          !.stream = From(@, p + 1),
                          !.parsed = Append(@, line),
                          !.at = IF wire.at = "read" /\ cmd = "none"
                                 THEN "exited" ELSE "read",
                          !.out = @ \o
                             (IF wire.at = "idle"
                              THEN (IF cmd \in {"noidle", "none"} THEN <<OkLine>>
                                    ELSE <<Ack(Unknown, 0, "idle")>>)
                              ELSE CASE cmd = "ping" -> <<OkLine>>
                                     [] cmd = "invalid" -> <<Ack(Unknown, 0, "")>>
                                     [] OTHER -> <<>>)]
    /\ UNCHANGED <<tasks, parser, settled, mapped, compiled, seeker, queue>>

\* the other arm of the select!: handler.idle() returns a set because a
\* version was published. The pending parse_command_line is dropped; with an
\* empty set the loop calls it again, with another the changed lines and OK
\* are written and Server::poll calls it for the next command
WireNotify ==
    /\ wire # <<>>
    /\ wire.at = "idle"
    /\ wire.notes < MaxNotes
    /\ \E set \in {{}, {"player"}} :
          wire' = [wire EXCEPT
                     !.notes = @ + 1,
                     !.buf = cleared(@),
                     !.at = IF set = {} THEN "idle" ELSE "read",
                     !.out = @ \o (IF set = {} THEN <<>>
                                   ELSE ChangedLines(set) \o <<OkLine>>)]
    /\ UNCHANGED <<tasks, parser, settled, mapped, compiled, seeker, queue>>

NextWire ==
    \/ WireStart
    \/ WireArrive
    \/ WireRead
    \/ WireNotify

SpecWire == Init /\ [][NextWire]_vars

\* ------------------------------------------------------ delete on the queue
\* Playlist.Remove on the backend: the item at position leaves the queue and
\* the items behind it move down by one; positions count from 0
PlaylistRemove(items, position) ==
    IF position < Len(items)
    THEN SubSeq(items, 1, position) \o SubSeq(items, position + 2, Len(items))
    ELSE items

\* what the backend answers to Playlist.Remove: a position past the end of the
\* queue removes nothing, and the request may fail
RemoveAnswers(items, position) ==
    IF position < Len(items) THEN {"ok"} ELSE {"ok", "error"}

\* a delete was parsed: the backend queue holds n items, named by the
\* position they had, and the handler is given the range first..=last
QueueGiven ==
    /\ queue = <<>>
    /\ \E n \in 0..MaxQueue, first \in 0..MaxQueue, last \in 0..MaxQueue,
          playlist \in {None, Some(0)} :
          queue' = [before |-> [i \in 1..n |-> i - 1],
                    items |-> [i \in 1..n |-> i - 1],
                    playlist |-> playlist, first |-> first, last |-> last,
                    position |-> first, sent |-> <<>>,
                    alive |-> TRUE, done |-> FALSE, reply |-> <<>>]
    /\ UNCHANGED <<tasks, parser, settled, mapped, compiled, seeker, wire>>

\* queue_delete, one turn of `for position in range`: PlaylistRemove is sent
\* and awaited; an error leaves the loop, the handler and the session by `?`
QueueRemove ==
    /\ queue # <<>>
    /\ ~queue.done
    /\ queue.playlist # None
    /\ queue.position <= queue.last
    /\ \E answer \in RemoveAnswers(queue.items, queue.position) :
          queue' = [queue EXCEPT
                      !.sent = Append(@, queue.position),
                      !.position = @ + 1,
                      !.items = IF answer = "ok"
                                THEN PlaylistRemove(@, queue.position) ELSE @,
                      !.alive = answer = "ok",
                      !.done = answer # "ok"]
    /\ UNCHANGED <<tasks, parser, settled, mapped, compiled, seeker, wire>>

\* queue_delete returns Ok(()) when the range is exhausted or no playlist is
\* cached; the Delete arm returns Ok(Ok(())) and OK is written
QueueDone ==
    /\ queue # <<>>
    /\ ~queue.done
    /\ queue.playlist = None \/ queue.position > queue.last
    /\ queue' = [queue EXCEPT !.done = TRUE, !.reply = <<OkLine>>]
    /\ UNCHANGED <<tasks, parser, settled, mapped, compiled, seeker, wire>>

NextQueue ==
    \/ QueueGiven
    \/ QueueRemove
    \/ QueueDone

SpecQueue == Init /\ [][NextQueue]_vars

\* ------------------------------------------------------------ vocabulary
Terminal == {"exited", "failed", "panicked"}
InList(s) == kind[s] \in {"list", "list_ok"}
Last(r) == r[Len(r)]
CountOf(r, ks) == Cardinality({i \in 1..Len(r) : r[i].k \in ks})
\* no event_new is under way
Quiet == \A w \in Writers : evpc[w] = "none"

\* C1: in a command list, when the sub-command at position i fails, the reply
\* holds exactly one ACK, its last line, whose index is i, no OK, and nothing
\* after position i was executed
ListAborted(s) ==
    /\ InList(s)
    /\ \/ pc[s] = "failed"
       \/ pc[s] = "read" /\ (reply[s] = <<>> \/ Last(reply[s]) # OkLine)
C1_AckAtIndex ==
    \A s \in Sessions :
        ListAborted(s) =>
            /\ reply[s] # <<>>
            /\ Last(reply[s]).k = "ACK"
            /\ Last(reply[s]).idx = idx[s]
            /\ CountOf(reply[s], {"ACK"}) = 1
            /\ CountOf(reply[s], {"OK"}) = 0

\* C2: a command that has been served ended with exactly one terminator line
\* (OK or ACK), its last line; noidle alone ends with none; list_OK lines
\* appear only in a command_list_ok_begin list
Served(s) ==
    /\ pc[s] \in {"read"} \cup Terminal
    /\ kind[s] \in {"sub", "list", "list_ok", "end"}
C2_OneTerminator ==
    \A s \in Sessions :
        Served(s) =>
            IF kind[s] = "sub" /\ cmds[s] = <<NoIdle>>
            THEN reply[s] = <<>>
            ELSE /\ CountOf(reply[s], {"OK", "ACK"}) = 1
                 /\ Last(reply[s]).k \in {"OK", "ACK"}
                 /\ kind[s] # "list_ok" => CountOf(reply[s], {"list_OK"}) = 0

\* a change of S was recorded after the last version the session took from
\* the channel and the session has not reported it
Fresh(s, S) ==
    /\ subsystem_events[S] > sess_events[s][S]
    /\ subsystem_version > sess_version[s]
IdleWanting(s, S) == pc[s] = "idle" /\ S \in Current(s).w

\* C3: a session blocked in idle player for which a Player change has been
\* recorded eventually leaves the idle, and the change is reported to it at
\* most once (a report never leaves the session's snapshot ahead of or
\* behind the counter it reported)
C3_PlayerChangeWakes ==
    /\ \A s \in Sessions :
           (IdleWanting(s, "player") /\ Fresh(s, "player")) ~> (pc[s] # "idle")
    /\ [][\A s \in Sessions :
             Changed("player") \in {reply'[s][i] : i \in Len(reply[s]) + 1..Len(reply'[s])}
                 => /\ subsystem_events["player"] > sess_events[s]["player"]
                    /\ sess_events'[s]["player"] = subsystem_events["player"]]_vars

\* the lines a step appends to the reply of s
Emitted(s) == SubSeq(reply'[s], Len(reply[s]) + 1, Len(reply'[s]))
LastOfCommand(s) == kind[s] = "sub" \/ idx[s] + 1 = Len(cmds[s])

C5_PublishedIsTotal == chan.value = Total

\* C5, at rest: the same once every event_new that began has finished
C5_PublishedIsTotalAtRest == Quiet => chan.value = Total

\* C5, first half: no counter ever decreases
C5_CountersGrow ==
    [][/\ \A S \in Subsystems : subsystem_events'[S] >= subsystem_events[S]
       /\ subsystem_version' >= subsystem_version]_vars

\* C6: no session task is ended by the failure of a handler operation
C6_NoSessionKilled == \A s \in Sessions : pc[s] # "failed"

\* C7: once its client has closed the connection, the session task
\* eventually ends
C7_EofEndsSession ==
    \A s \in Sessions : closed[s] ~> (pc[s] \in Terminal)

\* C8: an idler whose client closes while it is blocked in idle ends, and
\* every other idler blocked in idle player for which a Player change has
\* been recorded after that still leaves its idle
C8_CloseInIdle ==
    \A s \in Idlers :
        /\ (pc[s] = "idle" /\ closed[s]) ~> (pc[s] \in Terminal)
        /\ \A t \in Idlers \ {s} :
               (pc[s] = "exited" /\ IdleWanting(t, "player") /\ Fresh(t, "player"))
                   ~> (pc[t] # "idle")

\* C8, first half: an idler whose client closes while it is in idle ends
C8_ClosedIdlerEnds ==
    \A s \in Idlers : (pc[s] = "idle" /\ closed[s]) ~> (pc[s] \in Terminal)

\* C8, the steps of a session whose client has closed touch neither the
\* ledger nor the channel nor another session
C8_CloseLeavesOthers ==
    [][\A s \in Idlers :
          (closed[s] /\ pc'[s] # pc[s]) =>
              /\ UNCHANGED ledger
              /\ \A t \in Sessions \ {s} :
                     /\ pc'[t] = pc[t]
                     /\ rx_seen'[t] = rx_seen[t]
                     /\ sess_version'[t] = sess_version[t]
                     /\ sess_events'[t] = sess_events[t]
                     /\ reply'[t] = reply[t]]_vars

\* C9: when both idlers are blocked in idle player and a Player change has
\* been recorded for both, each of them leaves its idle
BothIdle ==
    \A s \in Idlers : IdleWanting(s, "player") /\ Fresh(s, "player")
C9_EveryIdlerWakes ==
    \A s \in Idlers : BothIdle ~> (pc[s] # "idle")

\* C10: an idle whose wanted set holds a subsystem that changed since the
\* session last reported it does not wait for a further change: once every
\* event_new has finished, its wake-up is pending
C10_IdleDoesNotWait ==
    \A s \in Sessions :
        (pc[s] = "idle" /\ Quiet /\ Events(s, Current(s).w) # {})
            => rx_seen[s] # chan.tick

\* C11: the changed lines a session in idle emits name wanted subsystems
\* only, and a wake-up ends the idle only when a wanted subsystem has changed
\* since the session last reported it
C11_OnlyWanted ==
    [][\A s \in Sessions :
          pc[s] = "idle" =>
              /\ \A i \in 1..Len(Emitted(s)) :
                     Emitted(s)[i].k = "changed" => Emitted(s)[i].arg \in Current(s).w
              /\ (rx_seen'[s] # rx_seen[s] /\ pc'[s] # "idle") =>
                     \E S \in Current(s).w :
                         subsystem_events[S] > sess_events[s][S]]_vars

\* C11: the session has taken a wake-up for a Mixer change in idle player, no
\* Player change ever recorded, and is still blocked, nothing written
C11_Witness ==
    /\ pc["A"] = "idle"
    /\ kind["A"] = "sub"
    /\ cmds["A"] = <<Idle({"player"})>>
    /\ reply["A"] = <<>>
    /\ chan.tick > 0
    /\ rx_seen["A"] = chan.tick
    /\ subsystem_events["player"] = 0
    /\ subsystem_events["mixer"] > sess_events["A"]["mixer"]

\* C12: a session about to run idle, with a publish it has not yet taken and
\* no event_new under way, will be told at its wake-up every wanted subsystem
\* that changed since it last reported it
C12_NextIdleReports ==
    \A s \in Sessions :
        (/\ pc[s] = "exec"
         /\ Current(s).v = "idle"
         /\ Quiet
         /\ rx_seen[s] # chan.tick
         /\ Events(s, Current(s).w) # {})
            => IdleSet(s, Current(s).w) = Events(s, Current(s).w)

\* C13: no session task is ever inside event_new
C13_PollerOnlyWriter == \A s \in Sessions : evpc[s] = "none"

\* the payloads a sub-command can write when it succeeds, and its handler call
PayloadsOf(c) ==
    IF c.v = "idle" THEN {ChangedLines(set) : set \in SUBSET c.w}
    ELSE {Payload(c, o) : o \in Outcomes(c)}
CallsOf(c) == IF HandlerOp(c.v) = "" THEN <<>> ELSE <<HandlerOp(c.v)>>
SucceededOne(s) ==
    /\ pc[s] = "read"
    /\ kind[s] \in {"sub", "list", "list_ok"}
    /\ Len(cmds[s]) = 1
    /\ CountOf(reply[s], {"ACK"}) = 0

\* C14: a sub-command that succeeded, sent alone or as a list of one, called
\* the same handler operation and wrote its payload followed by one OK, with
\* one list_OK between them in a command_list_ok_begin list
C14_ListOfOneAsAlone ==
    \A s \in Sessions :
        SucceededOne(s) =>
            /\ calls[s] = CallsOf(cmds[s][1])
            /\ \E p \in PayloadsOf(cmds[s][1]) :
                   reply[s] = p \o (IF kind[s] = "list_ok" THEN <<ListOkLine>> ELSE <<>>)
                                \o <<OkLine>>

\* C14, amended: the same, except that noidle sent alone writes nothing
C14_ListOfOneButNoIdle ==
    \A s \in Sessions :
        SucceededOne(s) =>
            /\ calls[s] = CallsOf(cmds[s][1])
            /\ IF kind[s] = "sub" /\ cmds[s] = <<NoIdle>>
               THEN reply[s] = <<>>
               ELSE \E p \in PayloadsOf(cmds[s][1]) :
                       reply[s] = p \o (IF kind[s] = "list_ok"
                                        THEN <<ListOkLine>> ELSE <<>>)
                                    \o <<OkLine>>

\* C14: clear succeeded as a command_list_ok_begin list of one
C14_Witness ==
    /\ pc["A"] = "read"
    /\ kind["A"] = "list_ok"
    /\ cmds["A"] = <<Cmd("clear")>>
    /\ calls["A"] = <<"queue_clear">>
    /\ reply["A"] = <<ListOkLine, OkLine>>

\* ------------------------------------------------------------ parsing claims
Parsed == stage \in {"parsed", "served"}

\* C15: a line whose name is not a supported command is answered with the one
\* line ACK [5@0] {} unknown command "<name>"; no handler operation is
\* called and the session task goes on
C15_UnknownCommand ==
    (stage = "served" /\ input.name \notin Supported) =>
        /\ served.reply = <<AckMsg(5, 0, "", <<"unknown command", input.name>>)>>
        /\ served.calls = <<>>
        /\ served.alive

C15_Witness ==
    /\ stage = "served"
    /\ input.name = "SETVOL"
    /\ input.args = <<"1">>
    /\ served.reply = <<AckMsg(5, 0, "", <<"unknown command", "SETVOL">>)>>
    /\ served.alive

\* the words of argument bytes that hold no quote
RECURSIVE Words(_)
Words(bytes) ==
    IF bytes = <<>> THEN <<>>
    ELSE IF Head(bytes) = " " THEN Words(Tail(bytes))
    ELSE LET p == Position(bytes, " ") IN
         IF p = 0 THEN <<bytes>>
         ELSE <<SubSeq(bytes, 1, p - 1)>> \o Words(From(bytes, p + 1))

RECURSIVE Value(_)
Value(w) ==
    IF w = <<>> THEN 0
    ELSE Value(SubSeq(w, 1, Len(w) - 1)) * 10 + DigitValue(w[Len(w)])

IsNumber(w) ==
    /\ w # <<>>
    /\ \A i \in 1..Len(w) : IsDigit(w[i])
    /\ Value(w) <= UsizeMax
IsRange(w) ==
    \/ IsNumber(w)
    \/ \E p \in 1..Len(w) :
          /\ w[p] = ":"
          /\ IsNumber(SubSeq(w, 1, p - 1))
          /\ IsNumber(From(w, p + 1))

\* the arguments each command declares, and how many of them are required
Declared(name) ==
    CASE name = "setvol" -> <<"usize">>
      [] name = "swap" -> <<"usize", "usize">>
      [] name = "delete" -> <<"range">>
      [] name = "playlistinfo" -> <<"range">>
      [] name \in {"plchanges", "plchangesposid"} -> <<"usize", "range">>
      [] name \in {"pause", "random"} -> <<"usize">>
      [] name = "clear" -> <<>>
Required(name) ==
    CASE name \in {"setvol", "delete", "plchanges", "plchangesposid", "random"} -> 1
      [] name = "swap" -> 2
      [] OTHER -> 0
Fits(ty, w) == IF ty = "usize" THEN IsNumber(w) ELSE IsRange(w)

\* the declared arguments that are present are well formed, and either a
\* required one is missing or words are left over after the declared ones
WrongCount(l) ==
    /\ l.name \in Supported \ {"find", "search"}
    /\ \A i \in 1..Len(l.args) : l.args[i] # "\""
    /\ LET words == Words(l.args)
           declared == Declared(l.name)
       IN /\ \A i \in 1..Len(words) : i <= Len(declared) => Fits(declared[i], words[i])
          /\ Len(words) < Required(l.name) \/ Len(words) > Len(declared)

C17_SetVol ==
    /\ (Parsed /\ input.shape = "int" /\ input.a <= UsizeMax) =>
          /\ parsed = Typed("setvol", <<input.a>>)
          /\ stage = "served" =>
                served = [reply |-> <<OkLine>>,
                          calls |-> <<<<"volume_set", input.a>>>>,
                          alive |-> TRUE]
    /\ (Parsed /\ input.shape = "junk") =>
          parsed = InvalidCmd("setvol", 2, <<"Invalid digit">>)

C17_Witness ==
    /\ stage = "served"
    /\ input.name = "setvol"
    /\ input.args = <<"\"", "5", "0", "\"">>
    /\ served.calls = <<<<"volume_set", 50>>>>
    /\ served.reply = <<OkLine>>

\* C18: the integer tokenizer on the decimal digits of N, bare or wrapped in
\* double quotes, yields (N, empty rest) for every N up to the largest usize,
\* and the Overflow error for every larger N
C18_IntegerRoundTrip ==
    (stage # "wait" /\ stage # "line" /\ input.shape = "int" /\ input.b = 0) =>
        IF input.a <= UsizeMax
        THEN token.int = IntOk(input.a, <<>>)
        ELSE token.int = IntErr("Overflow")

C18_Witness ==
    /\ stage = "tokens"
    /\ input.shape = "int"
    /\ input.quoted
    /\ input.args = <<"\"">> \o Decimal(UsizeMax) \o <<"\"">>
    /\ token.int = IntOk(UsizeMax, <<>>)

\* C19: the range parser maps the bytes A:B to A..=B for all integers A and
\* B, also when A > B, and the bytes N to N..=N; delete and playlistinfo
\* carry that range
C19_Range ==
    /\ (stage # "wait" /\ stage # "line" /\ input.shape = "range") =>
          token.range = RangeOk(input.a, input.b, <<>>)
    /\ (stage # "wait" /\ stage # "line" /\ input.shape = "int"
        /\ input.b = 0 /\ ~input.quoted /\ input.a <= UsizeMax) =>
          token.range = RangeOk(input.a, input.a, <<>>)
    /\ (Parsed /\ input.shape = "range") =>
          parsed = Typed(input.name, <<input.a, input.b>>)

C19_Witness ==
    /\ stage = "served"
    /\ input.shape = "range"
    /\ input.name = "delete"
    /\ input.a = UsizeMax
    /\ input.b = 0
    /\ token.range = RangeOk(UsizeMax, 0, <<>>)
    /\ served.calls = <<<<"queue_delete", UsizeMax, 0>>>>

\* C20: a command whose range argument is lexically invalid is answered with
\* one ACK of code 2; the session task goes on and no handler operation is
\* called
C20_BadRangeAck ==
    (stage = "served" /\ input.shape = "bad") =>
        /\ served.alive
        /\ Len(served.reply) = 1
        /\ served.reply[1].k = "ACK"
        /\ served.reply[1].code = 2
        /\ served.calls = <<>>

\* C21: pause N and random N with an integer N other than 0 and 1 are
\* answered with an ACK of code 2 (InvalidArgument)
C21_BadBooleanCode ==
    (stage = "served" /\ input.name \in {"pause", "random"}
     /\ Len(Words(input.args)) = 1 /\ IsNumber(Words(input.args)[1])
     /\ Value(Words(input.args)[1]) \notin {0, 1}) =>
        /\ Len(served.reply) = 1
        /\ served.reply[1].k = "ACK"
        /\ served.reply[1].code = 2

\* C22: plchanges V R and plchangesposid V R with a valid version and a valid
\* range parse to the typed command carrying R and are served like
\* playlistinfo R: the call queue_list(R), the entries, OK
C22_ChangesLikePlaylistInfo ==
    (stage = "served" /\ input.shape = "changes") =>
        /\ parsed.v = input.name
        /\ Tail(parsed.nums) = <<input.a, input.b>>
        /\ served = ServedAs(Typed("playlistinfo", <<input.a, input.b>>), "none")

\* the first word of a find line that is a keyword in a TAG position, 0 when
\* the line has none
KeywordAt(words) ==
    IF \E k \in 1..Len(words) :
          k % 2 = 1 /\ make_ascii_lowercase(words[k]) \in FilterKeywords
    THEN CHOOSE k \in 1..Len(words) :
            /\ k % 2 = 1 /\ make_ascii_lowercase(words[k]) \in FilterKeywords
            /\ \A j \in 1..(k - 1) :
                  j % 2 = 1 => make_ascii_lowercase(words[j]) \notin FilterKeywords
    ELSE 0

\* C23: in find and search a keyword sort X or window R after well formed
\* TAG VALUE pairs ends the filter list: the command parses to Find/Search
\* with exactly the pairs before the keyword and is served by library_find
C23_KeywordEndsFilters ==
    LET words == Words(input.args)
        k == KeywordAt(words)
    IN (Parsed /\ input.shape = "find" /\ k > 0 /\ k < Len(words)
        /\ \A j \in 1..(k - 1) :
              j % 2 = 1 => make_ascii_lowercase(words[j]) \in TagNames) =>
           /\ parsed = Typed(input.name,
                             [i \in 1..((k - 1) \div 2) |->
                                 <<make_ascii_lowercase(words[2 * i - 1]), words[2 * i]>>])
           /\ stage = "served" => served.alive /\ Len(served.calls) = 1

\* the fields of the status block in the order the protocol fixes
FieldOrder ==
    <<"partition", "volume", "repeat", "random", "single", "consume", "playlist",
      "playlistlength", "state", "song", "songid", "nextsong", "nextsongid",
      "time", "elapsed", "duration">>
Rank(key) == CHOOSE i \in 1..Len(FieldOrder) : FieldOrder[i] = key
Keys(b) == {b[i].key : i \in 1..Len(b)}

\* C24: the status block holds fields of FieldOrder only, in that order and
\* each at most once; partition: default is first, state is always there,
\* time is there exactly when elapsed and duration are both set, and every
\* other field exactly when its value is set
C24_StatusBlock ==
    block # <<>> =>
        /\ \A i \in 1..Len(block) : \E j \in 1..Len(FieldOrder) : FieldOrder[j] = block[i].key
        /\ \A i \in 1..(Len(block) - 1) : Rank(block[i].key) < Rank(block[i + 1].key)
        /\ block[1] = [key |-> "partition", val |-> <<"default">>]
        /\ "state" \in Keys(block)
        /\ "time" \in Keys(block) <=> {"elapsed", "duration"} \subseteq status.set
        /\ \A i \in 1..Len(FieldOrder) :
              FieldOrder[i] \notin {"partition", "state", "time"} =>
                  (FieldOrder[i] \in Keys(block) <=> FieldOrder[i] \in status.set)

C24_Witness ==
    /\ block # <<>>
    /\ status.set = {"volume", "song", "elapsed", "xfade"}
    /\ Len(block) = 5
    /\ block[2].key = "volume"
    /\ block[3].key = "state"
    /\ block[5].key = "elapsed"

\* C25: lsinfo with a path that no source label is a prefix of is answered
\* with an ACK of code 50 and not with an empty listing
C25_UnmappedPathNoExist ==
    (lsreply # <<>> /\ lsurl.scheme = "file" /\ lsurl.path # <<>>
     /\ \A i \in 1..Len(sources) : ~StripPrefix(lsurl.path, sources[i].label).ok) =>
        lsreply = <<Ack(50, 0, "lsinfo")>>

\* what the commands of C26 make of a mask
MaskAfter(cmd, mask) ==
    CASE cmd.op = "all" -> TagTypes
      [] cmd.op = "clear" -> {}
      [] cmd.op = "enable" -> mask \cup cmd.set
      [] cmd.op = "disable" -> mask \ cmd.set
      [] OTHER -> mask

\* C26: every session's mask starts as the full set; a tagtypes command sets
\* the mask of its session to all = the full set, clear = the empty set,
\* enable = the union, disable = the difference, leaves the masks of the
\* other sessions alone, and `tagtypes` lists exactly the session's mask
C26_TagMask ==
    /\ \A s \in Sessions : tags[s] = TagTypes
    /\ [][tagtypes' # tagtypes =>
            /\ tags' = [tags EXCEPT ![tagtypes'.s] = MaskAfter(tagtypes'.cmd, @)]
            /\ tagtypes'.cmd.op = "list" =>
                  LET lines == SubSeq(tagtypes'.reply, 1, Len(tagtypes'.reply) - 1) IN
                  /\ {lines[i].arg : i \in 1..Len(lines)} = tags[tagtypes'.s]
                  /\ Len(lines) = Cardinality(tags[tagtypes'.s])
            /\ Last(tagtypes'.reply) = OkLine]_vars

C26_Witness ==
    /\ tags = [s \in Sessions |-> IF s = "A" THEN {"Title"} ELSE TagTypes]
    /\ tagtypes # <<>>
    /\ tagtypes.s = "A"
    /\ tagtypes.cmd.op = "list"
    /\ tagtypes.reply = <<Data("Title"), OkLine>>

\* C27: a Duration of whole milliseconds made into a Time and back is the
\* same Duration, and the Time has minutes < 60, seconds < 60 and
\* 0 <= milliseconds < 1000
C27_TimeRoundTrip ==
    /\ time # <<>> =>
          /\ time.minutes < 60
          /\ time.seconds < 60
          /\ time.milliseconds >= 0
          /\ time.milliseconds < 1000
    /\ back # <<>> => back = duration

\* C28: the step in which a session blocked in idle takes a line other than
\* noidle emits exactly one ACK, of code 5, and no changed line, and calls no
\* handler operation for that line
C28_OtherLineEndsIdle ==
    [][\A s \in Sessions : \A line \in IdleLexicon \ {Sub(NoIdle)} :
          IdleLine(s, line) =>
              /\ CountOf(Emitted(s), {"ACK"}) = 1
              /\ \A i \in 1..Len(Emitted(s)) :
                    Emitted(s)[i].k = "ACK" => Emitted(s)[i].code = Unknown
              /\ CountOf(Emitted(s), {"changed"}) = 0
              /\ calls'[s] = calls[s]]_vars

\* C29: the step in which a session reads command_list_end with no command
\* list open calls no handler operation and leaves the session task alive,
\* reading its next command
C29_StrayListEndNoOp ==
    [][\A s \in Sessions :
          PollRead(s, ListEnd) =>
              /\ calls'[s] = <<>>
              /\ pc'[s] \notin Terminal
              /\ pc'[s] = "read"]_vars

\* what a tick fetched, against what was cached when it fetched
MixerDiffers ==
    /\ tick.app.fetched.ok
    /\ \/ tick.app.fetched.volume # tick.app.cached.volume
       \/ tick.app.fetched.muted # tick.app.cached.muted
PlayerDiffers ==
    /\ tick.player # <<>>
    /\ \/ tick.player.fetched.position # tick.player.cached.position
       \/ tick.player.fetched.speed # tick.player.cached.speed
PlaylistDiffers ==
    /\ tick.items # <<>>
    /\ tick.items.fetched.ok
    /\ tick.items.fetched.items # tick.items.cached
Raised(S) == kodi.subsystem_events[S] - tick.events[S]
Once(differs) == IF differs THEN 1 ELSE 0

\* C30: within a poll tick Mixer has been incremented once if the fetched
\* volume or mute differs from the cached one and not at all otherwise,
\* Player once if the fetched position or speed of the active player differs
\* and not otherwise, Playlist once if the fetched items differ and not
\* otherwise; one version is published per increment, so a tick in which
\* nothing differs increments no counter and publishes nothing
C30_TickRaisesWhatDiffers ==
    tick # <<>> =>
       /\ Raised("mixer") = Once(MixerDiffers)
       /\ Raised("player") = Once(PlayerDiffers)
       /\ Raised("playlist") = Once(PlaylistDiffers)
       /\ kodi.subsystem_notifier.sends - tick.sends =
             Once(MixerDiffers) + Once(PlayerDiffers) + Once(PlaylistDiffers)

\* C30: a second tick has ended in which the mute flag alone and the items
\* differed while the active player's position and speed did not: Mixer and
\* Playlist were raised once each, Player was not
C30_Witness ==
    /\ tick # <<>>
    /\ refresh.at = "sleep"
    /\ refresh.ticks = 2
    /\ tick.app.fetched.ok
    /\ tick.app.fetched.volume = tick.app.cached.volume
    /\ tick.app.fetched.muted # tick.app.cached.muted
    /\ tick.player # <<>>
    /\ ~PlayerDiffers
    /\ PlaylistDiffers
    /\ Raised("mixer") = 1
    /\ Raised("player") = 0
    /\ Raised("playlist") = 1
    /\ kodi.subsystem_notifier.sends = tick.sends + 2

\* C30: a second tick has ended that fetched all three and found nothing
\* changed: no counter moved and nothing was published
C30_QuietTick ==
    /\ tick # <<>>
    /\ refresh.at = "sleep"
    /\ refresh.ticks = 2
    /\ tick.app.fetched.ok
    /\ tick.player # <<>>
    /\ tick.items # <<>>
    /\ tick.items.fetched.ok
    /\ ~MixerDiffers /\ ~PlayerDiffers /\ ~PlaylistDiffers
    /\ kodi.subsystem_events = tick.events
    /\ kodi.subsystem_notifier.sends = tick.sends

\* the steps of a tick in which the backend answered with an error
AppFailed == refresh.at = "sleep" /\ refresh'.at = "probe" /\ ~tick'.app.fetched.ok
ProbeFailed ==
    /\ refresh.at = "probe"
    /\ Len(tick'.probed) = Len(tick.probed) + 1
    /\ ~Last(tick'.probed).ok
ItemsFailed ==
    /\ refresh.at = "playlist"
    /\ tick'.items # <<>>
    /\ ~tick'.items.fetched.ok

\* C31: a step of the poll task whose request fails leaves every cached
\* value, every subsystem counter, the version and the channel as they were,
\* and the task goes on: to the next request of the tick or to the sleep
\* before the next tick, and every tick up to the last one is started
C31_FailureSkipped ==
    /\ [][/\ AppFailed => kodi' = kodi
          /\ ProbeFailed => kodi' = kodi /\ refresh'.at \in {"probe", "sleep"}
          /\ ItemsFailed => kodi' = kodi /\ refresh'.at = "sleep"]_vars
    /\ <>(refresh.ticks = MaxTicks /\ refresh.at = "sleep")

\* C31: after a first tick that stored values, a second tick has ended in
\* which the application request and all three player requests failed: the cache, the counters and the channel are
\* what the first tick left
C31_Witness ==
    /\ tick # <<>>
    /\ refresh.ticks = 2
    /\ refresh.at = "sleep"
    /\ ~tick.app.fetched.ok
    /\ Len(tick.probed) = 3
    /\ \A i \in 1..3 : ~tick.probed[i].ok
    /\ kodi.app_properties.volume = Some(1)
    /\ kodi.player_properties.position = Some(1)
    /\ kodi.playlist_items = <<"a">>
    /\ kodi.subsystem_events = tick.events
    /\ kodi.subsystem_notifier = [value |-> 3, sends |-> 3]

\* the player that answered with the kind Audio in this tick, when one did
Won == tick.probed # <<>> /\ Last(tick.probed).ok /\ Last(tick.probed).kind = "audio"

\* C32: a tick probes the cached player id first, then other ids of 0..2,
\* none twice, and stops at the first that reports Audio; once one did, the
\* cached id is the id of that player
C32_WinnerCached ==
    tick # <<>> =>
       /\ tick.probed # <<>> => tick.probed[1].id = tick.id
       /\ \A i \in 1..Len(tick.probed) :
             /\ tick.probed[i].id \in 0..2
             /\ \A j \in 1..Len(tick.probed) :
                   tick.probed[i].id = tick.probed[j].id => i = j
             /\ (tick.probed[i].ok /\ tick.probed[i].kind = "audio") =>
                   i = Len(tick.probed)
       /\ Won => kodi.id = Last(tick.probed).id

\* base is a prefix of path, component by component
IsPrefix(base, path) == \E n \in 0..Len(path) : SubSeq(path, 1, n) = base
\* what the mapper looks for in a source, and what it puts in its place
Sought(src) == IF mapped.way = "to_internal" THEN src.label ELSE src.file
Placed(src) == IF mapped.way = "to_internal" THEN src.file ELSE src.label

\* C33: to_internal answers with the first source, in list order, whose
\* label is a prefix of the path: that source's file followed by what the
\* path has after the label; to_external does the same with label and file
\* exchanged; each answers not-found exactly when no source matches
C33_FirstMatchingSource ==
    (mapped # <<>> /\ mapped.done) =>
       LET srcs == mapped.sources
           Matches == {i \in 1..Len(srcs) : IsPrefix(Sought(srcs[i]), mapped.path)}
       IN /\ mapped.result.found <=> Matches # {}
          /\ mapped.result.found =>
                \E i \in Matches :
                   /\ \A j \in Matches : i <= j
                   /\ \E n \in 0..Len(mapped.result.path) :
                         /\ SubSeq(mapped.result.path, 1, n) = Placed(srcs[i])
                         /\ Sought(srcs[i])
                               \o SubSeq(mapped.result.path, n + 1,
                                         Len(mapped.result.path))
                            = mapped.path
                         /\ n = Len(Placed(srcs[i]))

\* C33: two sources carry the label music and the path music/live was
\* translated with the file of the first of them
C33_Witness ==
    /\ mapped # <<>>
    /\ mapped.done
    /\ mapped.way = "to_internal"
    /\ mapped.sources = <<[label |-> <<"music">>, file |-> <<"smb">>],
                          [label |-> <<"music">>, file |-> <<"nfs", "a">>]>>
    /\ mapped.path = <<"music", "live">>
    /\ mapped.result = [found |-> TRUE, path |-> <<"smb", "live">>]

\* a value that is the numeral of a usize
IsNumeral(w) ==
    /\ w # <<>>
    /\ Len(w) <= Len(Decimal(2 ^ WordBits - 1))
    /\ \A i \in 1..Len(w) : IsDigit(w[i])
    /\ Value(w) <= 2 ^ WordBits - 1
NoBackendField(tag) == tag \notin {"Artist", "Date", "Disc", "Track"}

\* C34: once a find was served, a term disc = D has become track_number
\* BETWEEN D*65536 AND D*65536 + 65534, a term track = N with N <= 65535 a match
\* of track_number against exactly d*65536 + N for d in 1..64, and a find with
\* a term whose tag has no backend field was answered with one ACK of code 5
C34_FilterArithmetic ==
    (compiled # <<>> /\ compiled.done) =>
       LET terms == compiled.terms IN
       /\ (\E i \in 1..Len(terms) : NoBackendField(terms[i].tag)) =>
             /\ ~compiled.ok
             /\ compiled.reply = <<Ack(5, 0, "find")>>
       /\ compiled.ok =>
             \A i \in 1..Len(terms) :
                LET rule == compiled.rules[i]
                    v == terms[i].value
                IN /\ (terms[i].tag = "Disc" /\ IsNumeral(v)) =>
                         /\ rule.field = "track"
                         /\ rule.operator = "between"
                         /\ Len(rule.value) = 2
                         /\ Value(rule.value[1]) % 65536 = 0
                         /\ Value(rule.value[1]) \div 65536 = Value(v)
                         /\ Value(rule.value[2]) = Value(rule.value[1]) + 65534
                   /\ (terms[i].tag = "Track" /\ IsNumeral(v) /\ Value(v) <= 65535) =>
                         /\ rule.field = "track"
                         /\ rule.operator = "is"
                         /\ Len(rule.value) = 64
                         /\ \A d \in 1..64 :
                               Value(rule.value[d]) = d * 65536 + Value(v)

\* the positions of the queue a seek or seekid may mean
Targets ==
    IF seeker.song.by = "pos" THEN {seeker.song.n}
    ELSE {i - 1 : i \in {j \in 1..Len(seeker.player.playlist_items) :
                           seeker.player.playlist_items[j] = seeker.song.n}}
Methods == [i \in 1..Len(seeker.requests) |-> seeker.requests[i].method]

\* C35: a served seek / seekid with a playlist cached and the backend
\* answering sent Player.Open for the target and then Player.Seek when the
\* target is not the cached position, Player.Seek alone when it is, and
\* raised Player once; a seekid whose id is not in the cached items sent
\* nothing, raised nothing and was answered OK; Player is never raised
\* without a Player.Seek that succeeded
C35_SeekOrder ==
    (seeker # <<>> /\ seeker.done) =>
       LET cached == seeker.player.player_properties IN
       /\ (cached.playlistid # None /\ Targets # {} /\ seeker.outcome = "none") =>
             /\ \E t \in Targets :
                   IF cached.position # Some(t)
                   THEN /\ Methods = <<"Player.Open", "Player.Seek">>
                        /\ seeker.requests[1].position = t
                   ELSE Methods = <<"Player.Seek">>
             /\ seeker.raised = 1
             /\ seeker.reply = <<OkLine>>
       /\ (seeker.song.by = "id" /\ Targets = {}) =>
             /\ seeker.requests = <<>>
             /\ seeker.raised = 0
             /\ seeker.reply = <<OkLine>>
       /\ seeker.raised = IF /\ Methods # <<>>
                             /\ Last(Methods) = "Player.Seek"
                             /\ seeker.outcome # "seek"
                          THEN 1 ELSE 0

\* C35: seekid 7 with the song at position 1 while position 1 is playing sent
\* Player.Seek alone and raised Player once
C35_Witness ==
    /\ seeker # <<>>
    /\ seeker.done
    /\ seeker.song = [by |-> "id", n |-> 7]
    /\ seeker.player.playlist_items = <<8, 7>>
    /\ seeker.player.player_properties.position = Some(1)
    /\ seeker.requests = <<PlayerSeekTime(0)>>
    /\ seeker.raised = 1
    /\ seeker.reply = <<OkLine>>

\* everything the client sent has been read and answered
WireDone ==
    /\ wire # <<>>
    /\ wire.unsent = <<>>
    /\ wire.stream = <<>>
    /\ wire.buf = <<>>
    /\ wire.at = "read"
Kinds(lines) == [i \in 1..Len(lines) |-> lines[i].k]

\* C36: a client that sent noidle after idle and then ping has been answered,
\* whatever the order of the line's arrival and the notifications, with one
\* OK for the pair, alone or after changed lines, and with the OK of ping
C36_OneOkForThePair ==
    (WireDone /\ wire.script = <<NoIdleBytes, PingBytes>>) =>
       \/ Kinds(wire.out) = <<"OK", "OK">>
       \/ Kinds(wire.out) = <<"changed", "OK", "OK">>

\* C36, for a noidle that arrives in one piece
C36_WholeLines ==
    (WireDone /\ wire.script = <<NoIdleBytes, PingBytes>>
        /\ wire.parsed = wire.script) =>
       \/ Kinds(wire.out) = <<"OK", "OK">>
       \/ Kinds(wire.out) = <<"changed", "OK", "OK">>

\* C40: the lines the session has parsed are the lines the client sent, in
\* order and byte for byte
C40_NoBytesLost ==
    wire # <<>> =>
       /\ Len(wire.parsed) <= Len(wire.script)
       /\ \A i \in 1..Len(wire.parsed) : wire.parsed[i] = wire.script[i]

\* C37: every send on the watch channel publishes a value larger than the one
\* the channel held, also when the poller and a seeking session are both
\* inside event_new; and a session that reads the channel never reads a value
\* smaller than one a session has read before
C37_PublishedIncreasing ==
    [][/\ chan'.tick # chan.tick => chan'.value > chan.value
       /\ \A s \in Sessions :
             rx_seen'[s] # rx_seen[s] =>
                \A t \in Sessions : chan.value >= sess_version[t]]_vars

\* C38: an empty line does not end a session: the step in which a session
\* whose client has not closed reads one between commands leaves the session
\* task reading, and the step in which it reads one while idle is pending
\* emits no OK and leaves the idle pending
C38_EmptyLineKeepsSession ==
    [][\A s \in Sessions :
          /\ PollRead(s, NoLine) => pc'[s] = "read"
          /\ IdleLine(s, NoLine) =>
                /\ pc'[s] = "idle"
                /\ CountOf(Emitted(s), {"OK"}) = 0]_vars

\* C39: when delete first:last has been served without a failed request on a
\* cached playlist whose queue held items at all of the positions
\* first..=last, the backend queue holds the items that stood outside those
\* positions, in their order
InRange ==
    /\ queue.playlist # None
    /\ queue.first <= queue.last
    /\ queue.last < Len(queue.before)
C39_DeleteRemovesRange ==
    (queue # <<>> /\ queue.done /\ queue.alive /\ InRange) =>
         queue.items = SubSeq(queue.before, 1, queue.first)
                          \o SubSeq(queue.before, queue.last + 2, Len(queue.before))

====
